---- MODULE Spec2Model ----
(***************************************************************************)
(* Model of the CLIverge tool lifecycle engine: the Lifecycle Manager      *)
(* (cliverge-core/src/tool.rs), the Version Resolver (version.rs), the     *)
(* Cache Store (cache.rs) and the GUI's Background Coordinator (app.rs).   *)
(*                                                                         *)
(* Strings the program parses are sequences of one-character strings.      *)
(* Option<T> is a sequence of length 0 (None) or 1 (Some).                 *)
(***************************************************************************)
EXTENDS Integers, Sequences, FiniteSets, TLC

\* ------------------------------------------------------------------ bounds
\* Number of Lifecycle Manager calls issued in one behaviour (each is a task).
NumCalls == 2

Calls == 1..NumCalls

\* ------------------------------------------------------------- Option, text
None == <<>>
Some(x) == <<x>>
IsSome(o) == Len(o) > 0
Unwrap(o) == o[1]

Digits == {"0", "1", "2", "3", "4", "5", "6", "7", "8", "9"}
Whitespace == {" "}

Str_unknown == <<"u", "n", "k", "n", "o", "w", "n">>
Str_version == <<"v", "e", "r", "s", "i", "o", "n">>

\* The slice s[i..j-1] (j exclusive).
Slice(s, i, j) == [n \in 1..(j - i) |-> s[i + n - 1]]

\* End (exclusive) of the maximal digit run starting at i; i itself when none.
RECURSIVE DigitsEnd(_, _)
DigitsEnd(s, i) ==
    IF i <= Len(s) /\ s[i] \in Digits THEN DigitsEnd(s, i + 1) ELSE i

\* `to` when the run from..to is not empty, 0 (no match) otherwise.
NonEmpty(from, to) == IF to > from THEN to ELSE 0

\* \.\d+ anchored at e: the end (exclusive) of the match, 0 when none.
DotDigits(s, e) ==
    IF e > 0 /\ e <= Len(s) /\ s[e] = "." THEN NonEmpty(e + 1, DigitsEnd(s, e + 1)) ELSE 0

OrElse(a, b) == IF a > 0 THEN a ELSE b

\* (?:\.\d+)? after three components ending at e3.
OptionalFourth(s, e3) == IF e3 = 0 THEN 0 ELSE OrElse(DotDigits(s, e3), e3)

\* \d+\.\d+\.\d+(?:\.\d+)? anchored at i: the end (exclusive) of the match, 0 when none.
MatchNumber(s, i) ==
    OptionalFourth(s, DotDigits(s, DotDigits(s, NonEmpty(i, DigitsEnd(s, i)))))

\* A match as <<start of group 1, end>>; <<0, 0>> when there is none.
Group(start, end) == IF end > 0 THEN <<start, end>> ELSE <<0, 0>>
FirstMatch(m1, m2) == IF m1[1] > 0 THEN m1 ELSE m2

\* v? then the number, anchored at i.
MatchVNumber(s, i) ==
    FirstMatch(IF i <= Len(s) /\ s[i] = "v" THEN Group(i + 1, MatchNumber(s, i + 1)) ELSE <<0, 0>>,
               Group(i, MatchNumber(s, i)))

RECURSIVE SpaceEnd(_, _)
SpaceEnd(s, i) ==
    IF i <= Len(s) /\ s[i] \in Whitespace THEN SpaceEnd(s, i + 1) ELSE i

\* \s+v?(number) from w on.
AfterWord(s, w, e) == IF e > w THEN MatchVNumber(s, e) ELSE <<0, 0>>

\* version\s+v?(number) anchored at i.
MatchVersionWord(s, i) ==
    IF i + Len(Str_version) - 1 <= Len(s) /\ Slice(s, i, i + Len(Str_version)) = Str_version
    THEN AfterWord(s, i + Len(Str_version), SpaceEnd(s, i + Len(Str_version)))
    ELSE <<0, 0>>

\* Bare number anchored at i.
MatchBare(s, i) == Group(i, MatchNumber(s, i))

\* The three patterns in the order of the array in the source.
PatternAt(p, s, i) ==
    CASE p = 1 -> MatchVNumber(s, i)
      [] p = 2 -> MatchVersionWord(s, i)
      [] OTHER -> MatchBare(s, i)

\* Leftmost match of pattern p in s (regex search): group 1, or None.
RECURSIVE Captures(_, _, _)
CaptureOrNext(m, p, s, i) ==
    IF m[1] > 0 THEN Some(Slice(s, m[1], m[2])) ELSE Captures(p, s, i + 1)
Captures(p, s, i) ==
    IF i > Len(s) THEN None ELSE CaptureOrNext(PatternAt(p, s, i), p, s, i)

\* `for pattern in &patterns { if let Some(captures) = ... { return ... } }`
RECURSIVE FirstCapture(_, _)
CaptureOrTry(c, output, p) == IF IsSome(c) THEN Unwrap(c) ELSE FirstCapture(output, p + 1)
FirstCapture(output, p) ==
    IF p > 3 THEN Str_unknown ELSE CaptureOrTry(Captures(p, output, 1), output, p)

parse_version_string(output) == FirstCapture(output, 1)

\* ------------------------------------------------------------ Tool Registry
Platforms == {"windows", "macos", "linux"}
\* std::env::consts::OS of the build under test.
OS == "linux"

\* HashMap::get on a map modelled as a function over a subset of the keys.
Get(map, key) == IF key \in DOMAIN map THEN Some(map[key]) ELSE None

AllPlatforms(v) == [p \in Platforms |-> v]

InstallMethod(m, c, p) == [method |-> m, command |-> c, package_name |-> p]

\* The tool configurations calls are made on (fields of ToolConfig that the
\* Lifecycle Manager reads).
NpmTool ==
    [id |-> "npmtool", command |-> "npmtool",
     version_check |-> AllPlatforms(<<"--version">>),
     update_check |-> Some(AllPlatforms(<<"npmtool", "update", "--check-only">>)),
     install |-> AllPlatforms(InstallMethod("npm", None, Some("npm-pkg"))),
     uninstall |-> None]

\* versionCheck has no entry for the current platform; install has one.
WinOnly ==
    [id |-> "winonly", command |-> "winonly",
     version_check |-> [p \in {"windows"} |-> <<"--version">>],
     update_check |-> None,
     install |-> AllPlatforms(InstallMethod("npm", None, Some("win-pkg"))),
     uninstall |-> None]

\* Installed by an explicit command; prints no version number.
ScriptTool ==
    [id |-> "scripttool", command |-> "scripttool",
     version_check |-> AllPlatforms(<<"-V">>),
     update_check |-> None,
     install |-> AllPlatforms(InstallMethod("script", Some(<<"sh", "install.sh">>), None)),
     uninstall |-> Some(AllPlatforms(InstallMethod("script", Some(<<"sh", "remove.sh">>), None)))]

\* Installed by a package manager update_tool has no command for.
CargoTool ==
    [id |-> "cargotool", command |-> "cargotool",
     version_check |-> AllPlatforms(<<"--version">>),
     update_check |-> None,
     install |-> AllPlatforms(InstallMethod("cargo", None, Some("cargo-pkg"))),
     uninstall |-> None]

\* No explicit install command and a method no synthesis knows.
ManualTool ==
    [id |-> "manualtool", command |-> "manualtool",
     version_check |-> AllPlatforms(<<"--version">>),
     update_check |-> None,
     install |-> AllPlatforms(InstallMethod("manual", None, Some("manual-pkg"))),
     uninstall |-> None]

\* No explicit install command, a known method and no package name.
NoPackageTool ==
    [id |-> "nopkgtool", command |-> "nopkgtool",
     version_check |-> AllPlatforms(<<"--version">>),
     update_check |-> None,
     install |-> AllPlatforms(InstallMethod("pip", None, None)),
     uninstall |-> None]

\* An explicit install command next to a method and package name that would
\* synthesize another one.
PinnedTool ==
    [id |-> "pinnedtool", command |-> "pinnedtool",
     version_check |-> AllPlatforms(<<"--version">>),
     update_check |-> None,
     install |-> AllPlatforms(InstallMethod("pip", Some(<<"pipx", "install", "pinned==1.0.0">>),
                                            Some("pinned"))),
     uninstall |-> None]

Catalog == {NpmTool, WinOnly, ScriptTool, CargoTool, ManualTool, NoPackageTool, PinnedTool}
ToolIds == {c.id : c \in Catalog}
\* An id no registry holds.
GhostId == "ghost"

\* ConfigManager::get_tool_config: the first tool of the list with that id.
RECURSIVE get_tool_config(_, _)
get_tool_config(tools, id) ==
    IF tools = <<>> THEN None
    ELSE IF Head(tools).id = id THEN Some(Head(tools))
    ELSE get_tool_config(Tail(tools), id)

\* ------------------------------------------------------------- environment
\* What is on the machine for a tool's command: nothing ("absent": the spawn
\* fails), a binary that exits non-zero ("broken"), or a working version.
V1 == <<"1", ".", "0", ".", "0">>
V2 == <<"2", ".", "0", ".", "0">>
WorldStates == {"absent", "broken", "v1", "v2"}

\* Exit of `command + version args` on the machine.
RunExit(w) ==
    CASE w = "absent" -> "spawn_failed"
      [] w = "broken" -> "nonzero"
      [] OTHER -> "zero"

\* stdout of the version command of a working tool.
VersionStdout(cfg, w) ==
    IF cfg.id = "scripttool" THEN <<"o", "k">>
    ELSE IF w = "v2" THEN <<"t", "o", "o", "l", " ", "v">> \o V2
    ELSE <<"v", "e", "r", "s", "i", "o", "n", " ">> \o V1

\* ---------------------------------------------------------------- statuses
Status(k, a) == [kind |-> k, arg |-> a]
Unknown == Status("Unknown", <<>>)
NotInstalled == Status("NotInstalled", <<>>)
Installed(v) == Status("Installed", v)
Error(msg) == Status("Error", <<msg>>)

VARIABLES
    registry,      \* ConfigManager.tools_config.tools: sequence of ToolConfig
    world,         \* per tool id: what the machine holds
    status_cache,  \* ToolManager.status_cache: id -> Option<ToolStatus>
    stamp,         \* history: the call that wrote status_cache[id] (0: none)
    regLock,       \* holder of the Mutex<ConfigManager> (0: free)
    cacheLock,     \* holder of the Mutex of status_cache (0: free)
    call,          \* per call: operation, tool id, position and locals
    tools_cache,   \* CLIvergeApp.tools_cache: sequence of [id, status]
    cache_mem,     \* CacheManager.cache.status_cache: id -> Option<ToolStatus>
    cache_file,    \* tool_cache.json on disk: id -> Option<ToolStatus>
    config_file,   \* the configuration file on disk: ids of the tools it lists
    cmLock,        \* holder of the Mutex<CacheManager> (<<>>: free)
    tasks,         \* status-check tasks spawned on the runtime, each with the
                   \* persistence thread it detaches
    savers,        \* per delete_tool: the two threads that save config and cache
    progress,      \* the progress channel: events sent and not yet received
    status_progress, \* AppState.status_progress
    ui,            \* the UI thread: ctx, is_refreshing, position
    auto,          \* one VersionChecker::auto_check call
    eval,          \* one application of a pure function: its inputs and its result
    store,         \* a CacheManager of its own, the clock and the cache file
    prog,          \* the progress lists of the application and their channels
    form,          \* the tool editor: the registry it edits and the listed tools
    sync           \* the mutexes of the application and the threads that take them

mgrVars == <<world, status_cache, stamp, regLock, cacheLock, call>>
guiVars == <<tools_cache, cache_mem, cache_file, config_file, cmLock, tasks, savers,
             progress, status_progress, ui>>
vars == <<registry, mgrVars, guiVars, auto, eval, store, prog, form, sync>>

\* "lookup" is get_tool: the tool's configuration with its status from get_tool_status.
Ops == {"check", "install", "uninstall", "update", "execute", "help", "lookup"}

IdleCall ==
    [op |-> "none", id |-> GhostId, pc |-> "idle", seen |-> FALSE,
     x1 |-> "none", x2 |-> "none", out |-> <<>>, st |-> Unknown,
     cmd |-> <<>>, runs |-> 0, res |-> "none", before |-> {},
     proc |-> None, ret |-> None, tries |-> <<>>]

\* The application is not running.
GuiIdle ==
    /\ tools_cache = <<>>
    /\ cache_mem = [t \in ToolIds |-> None]
    /\ cache_file = [t \in ToolIds |-> None]
    /\ config_file = {}
    /\ cmLock = <<>>
    /\ tasks = <<>>
    /\ savers = <<>>
    /\ progress = <<>>
    /\ status_progress = <<>>
    /\ ui = [ctx |-> FALSE, is_refreshing |-> FALSE, pc |-> "off", work |-> 0]

\* No version resolution is under way.
AutoIdle == auto = [pc |-> "off"]
EvalIdle == eval = [pc |-> "off"]
StoreIdle == store = [pc |-> "off"]
ProgIdle == prog = [pc |-> "off"]
FormIdle == form = [pc |-> "off"]
SyncIdle == sync = [pc |-> "off"]

\* After construction of the manager: nothing cached, no call issued.  The
\* registry holds one tool of the catalog; the machine may hold it or not.
Init ==
    /\ \E c \in Catalog :
         /\ registry = <<c>>
         /\ \E w \in WorldStates : world = [t \in ToolIds |-> IF t = c.id THEN w ELSE "absent"]
    /\ status_cache = [t \in ToolIds |-> None]
    /\ stamp = [t \in ToolIds |-> 0]
    /\ regLock = 0
    /\ cacheLock = 0
    /\ call = [k \in Calls |-> IdleCall]
    /\ GuiIdle
    /\ AutoIdle
    /\ ProgIdle
    /\ FormIdle
    /\ SyncIdle
    /\ EvalIdle
    /\ StoreIdle

\* ------------------------------------------------- command synthesis (pure)
Cmd(argv) == [err |-> "none", argv |-> argv]
CmdErr(e) == [err |-> e, argv |-> <<>>]

\* (C24 mutant) a missing package name gives the command without it.
WithPackage_unnamed(m, prefix, suffix) ==
    Cmd(prefix \o (IF IsSome(m.package_name) THEN <<Unwrap(m.package_name)>> ELSE <<>>) \o suffix)

\* `if let Some(package_name) ... else Err(ConfigError)`
WithPackage(m, prefix, suffix) ==
    IF IsSome(m.package_name)
    THEN Cmd(prefix \o <<Unwrap(m.package_name)>> \o suffix)
    ELSE CmdErr("ConfigError")

construct_install_command(m) ==
    CASE m.method = "npm" -> WithPackage(m, <<"npm", "install", "-g">>, <<>>)
      [] m.method = "brew" -> WithPackage(m, <<"brew", "install">>, <<>>)
      [] m.method = "pip" -> WithPackage(m, <<"pip", "install">>, <<>>)
      [] m.method = "apt" -> WithPackage(m, <<"sudo", "apt", "install", "-y">>, <<>>)
      [] m.method = "yum" -> WithPackage(m, <<"sudo", "yum", "install", "-y">>, <<>>)
      [] m.method = "dnf" -> WithPackage(m, <<"sudo", "dnf", "install", "-y">>, <<>>)
      [] m.method = "pacman" -> WithPackage(m, <<"sudo", "pacman", "-S", "--noconfirm">>, <<>>)
      [] m.method = "winget" ->
            WithPackage(m, <<"winget", "install">>,
                        <<"--accept-source-agreements", "--accept-package-agreements">>)
      [] m.method = "choco" -> WithPackage(m, <<"choco", "install">>, <<"-y">>)
      [] m.method = "scoop" -> WithPackage(m, <<"scoop", "install">>, <<>>)
      [] m.method = "cargo" -> WithPackage(m, <<"cargo", "install">>, <<>>)
      [] m.method = "go" -> WithPackage(m, <<"go", "install">>, <<>>)
      [] OTHER -> CmdErr("NotSupported")

construct_uninstall_command(m) ==
    CASE m.method = "npm" -> WithPackage(m, <<"npm", "uninstall", "-g">>, <<>>)
      [] m.method = "brew" -> WithPackage(m, <<"brew", "uninstall">>, <<>>)
      [] m.method = "pip" -> WithPackage(m, <<"pip", "uninstall", "-y">>, <<>>)
      [] m.method = "apt" -> WithPackage(m, <<"sudo", "apt", "remove", "-y">>, <<>>)
      [] m.method = "yum" -> WithPackage(m, <<"sudo", "yum", "remove", "-y">>, <<>>)
      [] m.method = "dnf" -> WithPackage(m, <<"sudo", "dnf", "remove", "-y">>, <<>>)
      [] m.method = "pacman" -> WithPackage(m, <<"sudo", "pacman", "-R", "--noconfirm">>, <<>>)
      [] m.method = "winget" -> WithPackage(m, <<"winget", "uninstall">>, <<>>)
      [] m.method = "choco" -> WithPackage(m, <<"choco", "uninstall">>, <<"-y">>)
      [] m.method = "scoop" -> WithPackage(m, <<"scoop", "uninstall">>, <<>>)
      [] m.method = "cargo" -> WithPackage(m, <<"cargo", "uninstall">>, <<>>)
      [] OTHER -> CmdErr("NotSupported")

\* The package-manager fallback of update_tool.
update_command(m) ==
    CASE m.method = "npm" -> WithPackage(m, <<"npm", "update", "-g">>, <<>>)
      [] m.method = "brew" -> WithPackage(m, <<"brew", "upgrade">>, <<>>)
      [] m.method = "pip" -> WithPackage(m, <<"pip", "install", "--upgrade">>, <<>>)
      [] OTHER -> CmdErr("NotSupported")

\* `if let Some(command) = &method.command { command } else { construct(..)? }`
CommandOf(m, construct(_)) ==
    IF IsSome(m.command) THEN Cmd(Unwrap(m.command)) ELSE construct(m)

\* The self-update argv: the update-check argv with the check flag replaced.
self_update_cmd(update_cmd) ==
    [i \in 1..Len(update_cmd) |->
        IF update_cmd[i] = "--check-only" THEN "--update" ELSE update_cmd[i]]

\* (C21 mutant) the install method even when a dedicated uninstall method exists.
uninstall_config_install_only(cfg) == Get(cfg.install, OS)

\* The uninstall method of uninstall_tool: the dedicated one, else the install one.
uninstall_config(cfg) ==
    LET dedicated == IF IsSome(cfg.uninstall) THEN Get(Unwrap(cfg.uninstall), OS) ELSE None
    IN  IF IsSome(dedicated) THEN dedicated ELSE Get(cfg.install, OS)

\* is_tool_installed: no argv for the platform is "not installed" without a spawn.
is_tool_installed(cfg, w) ==
    IsSome(Get(cfg.version_check, OS)) /\ RunExit(w) = "zero"

\* ------------------------------------------------------- Lifecycle Manager
Cfg(id) == Unwrap(get_tool_config(registry, id))

Finish(c, res) == [c EXCEPT !.pc = "done", !.res = res]

\* Positions at which the call is spawning or awaiting a subprocess.
SubprocessPcs == {"probe", "version", "run", "selfupd", "pm", "exec", "help1", "help2", "help3"}

\* (C7 mutant) the guard of the registry lock outlives the block.
RegUnlock_held(k) == k

\* The guard of the registry lock is dropped at the end of the block that reads
\* the configuration, before the first await.
RegUnlock(k) == 0

\* The guard of the status-cache lock is dropped at the end of the `if let`.
CacheUnlock(k) == 0

\* A call is issued: the method starts by taking the registry lock.
StartCall(k, op, id) ==
    /\ call[k].pc = "idle"
    /\ IF k = 1 THEN TRUE ELSE call[k - 1].pc # "idle"
    /\ regLock = 0
    /\ regLock' = k
    /\ call' = [call EXCEPT ![k] =
                  [@ EXCEPT !.op = op, !.id = id, !.pc = "reg",
                            !.before = {j \in Calls : call[j].pc = "done"}]]
    /\ UNCHANGED <<registry, world, status_cache, stamp, cacheLock, guiVars, auto, eval, store, prog, form, sync>>

\* What the locked block at the head of each method resolves: "Ok" or the error.
Resolve(op, found) ==
    IF ~IsSome(found) THEN "NotFound"
    ELSE IF op \in {"install", "update"} /\ ~IsSome(Get(Unwrap(found).install, OS))
         THEN "NotSupported"
    ELSE IF op = "uninstall" /\ ~IsSome(uninstall_config(Unwrap(found)))
         THEN "NotSupported"
    ELSE "Ok"

\* The locked block: look the tool up, clone its configuration, drop the lock.
RegRead(k) ==
    /\ call[k].pc = "reg"
    /\ regLock = k
    /\ LET c == call[k]
           r == Resolve(c.op, get_tool_config(registry, c.id))
       IN  call' = [call EXCEPT ![k] =
                      IF r # "Ok" THEN Finish(c, r)
                      ELSE [c EXCEPT !.pc = CASE c.op = "help" -> "help1"
                                                [] c.op = "lookup" -> "peek"
                                                [] OTHER -> "probe"]]
    /\ regLock' = RegUnlock(k)
    /\ UNCHANGED <<registry, world, status_cache, stamp, cacheLock, guiVars, auto, eval, store, prog, form, sync>>

\* Moving call k to record n; entering "cache" takes the status-cache lock.
Move(k, n) ==
    /\ n.pc = "cache" => cacheLock = 0
    /\ cacheLock' = IF n.pc = "cache" THEN k ELSE cacheLock
    /\ call' = [call EXCEPT ![k] = n]

\* execute_install_command / execute_uninstall_command refuse an empty argv
\* before spawning anything.
ToRun(c, cmd, pc) ==
    IF cmd.err # "none" THEN Finish(c, cmd.err)
    ELSE IF cmd.argv = <<>> THEN Finish(c, "ConfigError")
    ELSE [c EXCEPT !.pc = pc, !.cmd = cmd.argv]

\* check_tool_status after is_tool_installed.
check_tool_status_probed(c) ==
    IF c.seen THEN [c EXCEPT !.pc = "version"]
    ELSE [c EXCEPT !.st = NotInstalled, !.pc = "cache"]

\* (C2 mutant) install_tool without the already-installed return.
install_tool_probed_unchecked(c) ==
    ToRun(c, CommandOf(Cfg(c.id).install[OS], construct_install_command), "run")

\* install_tool after is_tool_installed.
install_tool_probed(c) ==
    IF c.seen THEN Finish(c, "Ok")
    ELSE ToRun(c, CommandOf(Cfg(c.id).install[OS], construct_install_command), "run")

\* uninstall_tool after is_tool_installed.
uninstall_tool_probed(c) ==
    IF ~c.seen THEN Finish(c, "Ok")
    ELSE ToRun(c, CommandOf(Unwrap(uninstall_config(Cfg(c.id))), construct_uninstall_command), "run")

\* update_tool: the package-manager fallback.
update_tool_fallback(c) ==
    LET cmd == update_command(Cfg(c.id).install[OS])
    IN  IF cmd.err # "none" THEN Finish(c, cmd.err) ELSE [c EXCEPT !.pc = "pm", !.cmd = cmd.argv]

\* update_tool after is_tool_installed.
update_tool_probed(c) ==
    LET uc == Cfg(c.id).update_check
        argv == IF IsSome(uc) THEN Get(Unwrap(uc), OS) ELSE None
    IN  IF ~c.seen THEN Finish(c, "NotFound")
        ELSE IF IsSome(argv) /\ Unwrap(argv) # <<>>
             THEN [c EXCEPT !.pc = "selfupd", !.cmd = self_update_cmd(Unwrap(argv))]
        ELSE update_tool_fallback(c)

\* execute_tool after is_tool_installed.
execute_tool_probed(c) ==
    IF ~c.seen THEN Finish(c, "NotFound") ELSE [c EXCEPT !.pc = "exec"]

\* is_tool_installed returns, and the method goes on to its next await.
Probe(k) ==
    /\ call[k].pc = "probe"
    /\ LET cfg == Cfg(call[k].id)
           w == world[call[k].id]
           c == [call[k] EXCEPT
                   !.seen = is_tool_installed(cfg, w),
                   !.x1 = IF IsSome(Get(cfg.version_check, OS)) THEN RunExit(w) ELSE "none"]
       IN  Move(k, CASE c.op \in {"check", "lookup"} -> check_tool_status_probed(c)
                     [] c.op = "install" -> install_tool_probed(c)
                     [] c.op = "uninstall" -> uninstall_tool_probed(c)
                     [] c.op = "update" -> update_tool_probed(c)
                     [] OTHER -> execute_tool_probed(c))
    /\ UNCHANGED <<registry, world, status_cache, stamp, regLock, guiVars, auto, eval, store, prog, form, sync>>

\* get_current_version: a second run of the version command.
get_current_version(cfg, w) ==
    IF RunExit(w) = "zero"
    THEN [ok |-> TRUE, version |-> parse_version_string(VersionStdout(cfg, w))]
    ELSE [ok |-> FALSE, version |-> <<>>]

\* (C4 mutant) a failed version read reported as not installed.
check_tool_status_versioned_quiet(c, v) ==
    IF v.ok THEN [c EXCEPT !.st = Installed(v.version), !.pc = "cache"]
    ELSE [c EXCEPT !.st = NotInstalled, !.pc = "cache"]

\* check_tool_status: the match on get_tool_version.
check_tool_status_versioned(c, v) ==
    IF v.ok THEN [c EXCEPT !.st = Installed(v.version), !.pc = "cache"]
    ELSE [c EXCEPT !.st = Error("Version check failed"), !.pc = "cache"]

Version(k) ==
    /\ call[k].pc = "version"
    /\ LET cfg == Cfg(call[k].id)
           w == world[call[k].id]
           c == [call[k] EXCEPT
                   !.x2 = RunExit(w),
                   !.out = IF RunExit(w) = "zero" THEN VersionStdout(cfg, w) ELSE <<>>]
       IN  Move(k, check_tool_status_versioned(c, get_current_version(cfg, w)))
    /\ UNCHANGED <<registry, world, status_cache, stamp, regLock, guiVars, auto, eval, store, prog, form, sync>>

\* What a command that exits zero leaves on the machine when it took effect.
EffectOf(op) == CASE op = "install" -> "v1" [] op = "uninstall" -> "absent" [] OTHER -> "v2"

Exits == {"zero", "nonzero", "spawn_failed"}

\* String::from_utf8_lossy: invalid bytes become U+FFFD ("0xFF" is a byte that
\* is not valid UTF-8).
from_utf8_lossy(bytes) ==
    [i \in 1..Len(bytes) |-> IF bytes[i] = "0xFF" THEN "U+FFFD" ELSE bytes[i]]

\* How awaiting a spawn ended: no process, or the exit code of the process.
ExitOf(spawn) ==
    IF ~IsSome(spawn) THEN "spawn_failed"
    ELSE IF Unwrap(spawn).code = 0 THEN "zero" ELSE "nonzero"

\* What an install, uninstall or update command can print and exit with.
CommandOutputs ==
    { [code |-> 0, stdout |-> <<"done">>, stderr |-> <<>>],
      [code |-> 1, stdout |-> <<"out">>, stderr |-> <<"err">>],
      [code |-> 1, stdout |-> <<>>, stderr |-> <<"0xFF">>] }

\* Awaiting such a command: Err when it cannot be spawned (None), else its Output.
CommandRuns == {None} \cup {Some(o) : o \in CommandOutputs}

\* (C25 mutant) the error message carries stderr only.
failure_message_stderr(output) ==
    [code |-> output.code, stdout |-> <<>>, stderr |-> from_utf8_lossy(output.stderr)]

\* What the ExecutionFailed message of a non-zero exit is formatted from.
failure_message(output) ==
    [code |-> output.code, stdout |-> from_utf8_lossy(output.stdout),
     stderr |-> from_utf8_lossy(output.stderr)]

\* execute_install_command / execute_uninstall_command after the spawn: the
\* call goes on to `next` on a zero exit and returns ExecutionFailed otherwise.
execute_install_command(c, spawn, next) ==
    IF ~IsSome(spawn) THEN Finish(c, "ExecutionFailed")
    ELSE IF Unwrap(spawn).code # 0
         THEN Finish([c EXCEPT !.ret = Some(failure_message(Unwrap(spawn)))], "ExecutionFailed")
    ELSE [c EXCEPT !.pc = next]

\* The call after awaiting the command it is at, with what the process did.
Spawn(c, spawn) ==
    [c EXCEPT !.runs = @ + 1, !.x2 = ExitOf(spawn), !.proc = spawn,
              !.tries = Append(@, [args |-> c.cmd, out |-> spawn])]

\* (C32 mutant) the command of a call waits for the commands of earlier calls
\* on the same tool.
Run_queued(k) ==
    /\ call[k].pc = "run"
    /\ \A j \in Calls : j < k /\ call[j].id = call[k].id => call[j].pc # "run"
    /\ \E spawn \in CommandRuns, effective \in BOOLEAN :
         LET c == Spawn(call[k], spawn)
         IN  /\ ExitOf(spawn) # "zero" => ~effective
             /\ Move(k, execute_install_command(c, spawn, "cache"))
             /\ world' = IF effective THEN [world EXCEPT ![c.id] = EffectOf(c.op)] ELSE world
    /\ UNCHANGED <<registry, status_cache, stamp, regLock, guiVars, auto, eval, store, prog, form, sync>>

\* The install or uninstall command runs; on success the method goes on to clear
\* the cached status.  A zero exit need not leave the tool detectable.
Run(k) ==
    /\ call[k].pc = "run"
    /\ \E spawn \in CommandRuns, effective \in BOOLEAN :
         LET c == Spawn(call[k], spawn)
         IN  /\ ExitOf(spawn) # "zero" => ~effective
             /\ Move(k, execute_install_command(c, spawn, "cache"))
             /\ world' = IF effective THEN [world EXCEPT ![c.id] = EffectOf(c.op)] ELSE world
    /\ UNCHANGED <<registry, status_cache, stamp, regLock, guiVars, auto, eval, store, prog, form, sync>>

\* update_tool: the self-update command; success returns at once, a failure
\* is logged and the method goes on to the package manager.
update_tool_self_updated(c, exit) ==
    IF exit = "zero" THEN Finish(c, "Ok") ELSE update_tool_fallback(c)

SelfUpdate(k) ==
    /\ call[k].pc = "selfupd"
    /\ \E spawn \in CommandRuns, effective \in BOOLEAN :
         LET c == Spawn(call[k], spawn)
         IN  /\ ExitOf(spawn) # "zero" => ~effective
             /\ Move(k, update_tool_self_updated(c, ExitOf(spawn)))
             /\ world' = IF effective THEN [world EXCEPT ![c.id] = EffectOf(c.op)] ELSE world
    /\ UNCHANGED <<registry, status_cache, stamp, regLock, guiVars, auto, eval, store, prog, form, sync>>

\* update_tool: the package-manager update command.
PmUpdate(k) ==
    /\ call[k].pc = "pm"
    /\ \E spawn \in CommandRuns, effective \in BOOLEAN :
         LET c == Spawn(call[k], spawn)
         IN  /\ ExitOf(spawn) # "zero" => ~effective
             /\ Move(k, execute_install_command(c, spawn, "cache"))
             /\ world' = IF effective THEN [world EXCEPT ![c.id] = EffectOf(c.op)] ELSE world
    /\ UNCHANGED <<registry, status_cache, stamp, regLock, guiVars, auto, eval, store, prog, form, sync>>

\* (C26 mutant) get_tool_status without the cache read.
get_tool_status_peeked_fresh(c, cached) == [c EXCEPT !.pc = "reg2"]

\* get_tool_status: `if let Some(cached_status) = cache.get(tool_id) { return .. }`
get_tool_status_peeked(c, cached) ==
    IF IsSome(cached) THEN Finish([c EXCEPT !.st = Unwrap(cached)], "Ok")
    ELSE [c EXCEPT !.pc = "reg2"]

\* get_tool_status reads the status cache under its lock; the guard is gone
\* at the end of the `if let`.
Peek(k) ==
    /\ call[k].pc = "peek"
    /\ cacheLock = 0
    /\ call' = [call EXCEPT ![k] = get_tool_status_peeked(@, status_cache[call[k].id])]
    /\ UNCHANGED <<registry, world, status_cache, stamp, regLock, cacheLock, guiVars, auto, eval, store, prog, form, sync>>

\* get_tool_status, nothing cached: the configuration is read again under the
\* registry lock, then the status is computed as check_tool_status does.
RegAgain(k) ==
    /\ call[k].pc = "reg2"
    /\ regLock = 0
    /\ call' = [call EXCEPT ![k] =
                  IF IsSome(get_tool_config(registry, call[k].id))
                  THEN [@ EXCEPT !.pc = "probe"]
                  ELSE Finish(@, "NotFound")]
    /\ UNCHANGED <<registry, world, status_cache, stamp, regLock, cacheLock, guiVars, auto, eval, store, prog, form, sync>>

\* The locked map write that ends check_tool_status and get_tool_status
\* (insert) and the successful install, uninstall and update (remove).
CacheWrite(k) ==
    /\ call[k].pc = "cache"
    /\ cacheLock = k
    /\ LET c == call[k]
       IN  /\ status_cache' = [status_cache EXCEPT ![c.id] =
                                 IF c.op \in {"check", "lookup"} THEN Some(c.st) ELSE None]
           /\ stamp' = [stamp EXCEPT ![c.id] = IF c.op \in {"check", "lookup"} THEN k ELSE 0]
           /\ call' = [call EXCEPT ![k] = Finish(c, "Ok")]
    /\ cacheLock' = CacheUnlock(k)
    /\ UNCHANGED <<registry, world, regLock, guiVars, auto, eval, store, prog, form, sync>>

\* std::process::Output of a tool run: exit code, stdout and stderr.
ProcessOutputs ==
    [code : {0, 1}, stdout : {<<>>, <<"out">>}, stderr : {<<>>, <<"err">>}]

\* The args execute_tool is called with.
ExecArgs == {<<>>, <<"--fast">>}

\* What awaiting a spawn on the machine can give: Err when the command is
\* not there (None), else the Output of the process.
Spawned(w) == IF w = "absent" THEN {None} ELSE {Some(o) : o \in ProcessOutputs}

\* (C22 mutant) a non-zero exit code of the tool turned into an error.
execute_tool_ran_checked(c, spawn) ==
    IF IsSome(spawn) /\ Unwrap(spawn).code = 0
    THEN Finish([c EXCEPT !.ret = spawn], "Ok")
    ELSE Finish(c, "ExecutionFailed")

\* execute_tool after `cmd.output().await`: map_err on the spawn, else Ok(output).
execute_tool_ran(c, spawn) ==
    IF IsSome(spawn) THEN Finish([c EXCEPT !.ret = spawn], "Ok")
    ELSE Finish(c, "ExecutionFailed")

\* execute_tool: the tool runs with the caller's arguments; its output is
\* returned whatever its exit code, a spawn failure is an error.
Exec(k) ==
    /\ call[k].pc = "exec"
    /\ \E args \in ExecArgs, spawn \in Spawned(world[call[k].id]) :
         call' = [call EXCEPT ![k] =
                    execute_tool_ran([@ EXCEPT !.x2 = ExitOf(spawn), !.proc = spawn,
                                                !.cmd = <<Cfg(call[k].id).command>> \o args],
                                     spawn)]
    /\ UNCHANGED <<registry, world, status_cache, stamp, regLock, cacheLock, guiVars, auto, eval, store, prog, form, sync>>

NextHelp(pc) == CASE pc = "help1" -> "help2" [] pc = "help2" -> "help3" [] OTHER -> "done"
HelpIndex(pc) == CASE pc = "help1" -> 1 [] pc = "help2" -> 2 [] OTHER -> 3

\* `let help_commands = vec![...]`
help_commands == << <<"--help">>, <<"help">>, <<"-h">> >>

\* What a help invocation of a tool on the machine can print and exit with.
\* "0xFF" is a byte that is not valid UTF-8.
HelpOutputs ==
    { [code |-> 1, stdout |-> <<"h">>, stderr |-> <<>>],
      [code |-> 0, stdout |-> <<>>, stderr |-> <<>>],
      [code |-> 0, stdout |-> <<" ", "\n">>, stderr |-> <<>>],
      [code |-> 0, stdout |-> <<"h", "0xFF", "\n">>, stderr |-> <<>>] }

HelpSpawned(w) == IF w = "absent" THEN {None} ELSE {Some(o) : o \in HelpOutputs}

\* str::trim: leading and trailing white space removed.
WhiteSpace == {" ", "\n", "\t"}
RECURSIVE trim_start(_)
trim_start(s) ==
    IF s # <<>> /\ Head(s) \in WhiteSpace THEN trim_start(Tail(s)) ELSE s
RECURSIVE trim_end(_)
trim_end(s) ==
    IF s # <<>> /\ s[Len(s)] \in WhiteSpace THEN trim_end(SubSeq(s, 1, Len(s) - 1)) ELSE s
trim(s) == trim_end(trim_start(s))

\* (C23 mutant) any non-empty stdout of a successful run is taken.
usable_help_untrimmed(output) ==
    output.code = 0 /\ from_utf8_lossy(output.stdout) # <<>>

\* `output.status.success()` and `!help_text.trim().is_empty()`
usable_help(output) ==
    output.code = 0 /\ trim(from_utf8_lossy(output.stdout)) # <<>>

\* One turn of the loop of get_tool_help after execute_tool_command returned.
get_tool_help_tried(c, spawn, usable) ==
    IF usable THEN Finish([c EXCEPT !.out = from_utf8_lossy(Unwrap(spawn).stdout)], "Ok")
    ELSE IF c.pc = "help3" THEN Finish(c, "ExecutionFailed")
    ELSE [c EXCEPT !.pc = NextHelp(c.pc)]

\* get_tool_help: one of --help, help, -h runs; the first success with a
\* stdout that is not blank is returned, the failure of the last is
\* ExecutionFailed.
HelpTry(k) ==
    /\ call[k].pc \in {"help1", "help2", "help3"}
    /\ \E spawn \in HelpSpawned(world[call[k].id]) :
         LET args == help_commands[HelpIndex(call[k].pc)]
             c == [call[k] EXCEPT !.runs = @ + 1, !.x2 = ExitOf(spawn),
                                  !.tries = Append(@, [args |-> args, out |-> spawn])]
         IN  call' = [call EXCEPT ![k] =
                        get_tool_help_tried(c, spawn,
                                            IsSome(spawn) /\ usable_help(Unwrap(spawn)))]
    /\ UNCHANGED <<registry, world, status_cache, stamp, regLock, cacheLock, guiVars, auto, eval, store, prog, form, sync>>

\* The ids calls are made with: those of the registry, and one it does not hold.
CallIds == {registry[i].id : i \in DOMAIN registry} \cup {GhostId}

Next ==
    \/ \E k \in Calls, op \in Ops, id \in CallIds : StartCall(k, op, id)
    \/ \E k \in Calls : RegRead(k)
    \/ \E k \in Calls : Probe(k)
    \/ \E k \in Calls : Version(k)
    \/ \E k \in Calls : Run(k)
    \/ \E k \in Calls : SelfUpdate(k)
    \/ \E k \in Calls : PmUpdate(k)
    \/ \E k \in Calls : CacheWrite(k)
    \/ \E k \in Calls : Peek(k)
    \/ \E k \in Calls : RegAgain(k)
    \/ \E k \in Calls : Exec(k)
    \/ \E k \in Calls : HelpTry(k)

Spec == Init /\ [][Next]_vars

\* ------------------------------------------------ Lifecycle Manager claims
Returned(k) == call[k].pc = "done"
Known(k) == IsSome(get_tool_config(registry, call[k].id))
HasVersionCheck(k) == Known(k) /\ IsSome(Get(Cfg(call[k].id).version_check, OS))

\* Call k is an install(id) issued after install(id) call j had returned success.
SecondInstall(j, k) ==
    /\ j \in call[k].before
    /\ call[j].op = "install" /\ call[k].op = "install"
    /\ call[j].id = call[k].id
    /\ call[j].res = "Ok"
    /\ Returned(k)

\* C2 (as claimed): of two install(id) calls in sequence, the first successful,
\* the second succeeds and the install command was run exactly once in all.
C2_Original ==
    \A j, k \in Calls :
        SecondInstall(j, k) => call[k].res = "Ok" /\ call[j].runs + call[k].runs = 1

\* C2 (amended): the second install(id) is a no-op success whenever its own
\* probe detects the tool, and then at most one install command ran in all;
\* when the probe does not detect the tool, a successful second call has run
\* the install command again.
C2_Amended ==
    \A j, k \in Calls :
        SecondInstall(j, k) =>
            /\ call[k].seen => call[k].res = "Ok" /\ call[k].runs = 0
                                /\ call[j].runs + call[k].runs <= 1
            /\ ~call[k].seen /\ call[k].res = "Ok" => call[k].runs = 1

C2_Witness ==
    \E j, k \in Calls :
        SecondInstall(j, k) /\ call[k].seen /\ call[j].runs = 1 /\ call[k].res = "Ok"

\* C3 (as claimed): with no versionCheck entry for the platform, checkStatus
\* reports an error status and install returns NotSupported without running
\* a command; NotInstalled is never reported.
C3_Claim ==
    \A k \in Calls :
        Returned(k) /\ Known(k) /\ ~HasVersionCheck(k) =>
            /\ call[k].op = "check" => call[k].st.kind = "Error"
            /\ call[k].op = "install" => call[k].res = "NotSupported" /\ call[k].runs = 0

HoldsEarlierStatus(k) ==
    IsSome(status_cache[call[k].id]) /\ stamp[call[k].id] \in call[k].before

\* C5 (as claimed): when install(id) returns success the status cache no longer
\* holds the entry computed before the install.
C5_Claim ==
    \A k \in Calls :
        Returned(k) /\ call[k].op = "install" /\ call[k].res = "Ok" => ~HoldsEarlierStatus(k)

\* C6 (as claimed): when update(id) returns success, by either path, the
\* status cache entry of id has been invalidated.
C6_Claim ==
    \A k \in Calls :
        Returned(k) /\ call[k].op = "update" /\ call[k].res = "Ok" => ~HoldsEarlierStatus(k)

\* C7: no call holds the registry lock or the status-cache lock while it is
\* spawning or awaiting a subprocess; each lock is held only in the block that
\* reads or writes the map.
C7_NoLockAcrossSubprocess ==
    \A k \in Calls :
        /\ call[k].pc \in SubprocessPcs => regLock # k /\ cacheLock # k
        /\ regLock = k => call[k].pc = "reg"
        /\ cacheLock = k => call[k].pc = "cache"

\* One call awaits its install command while another holds the registry lock.
C7_Witness ==
    \E j, k \in Calls :
        j # k /\ call[k].pc = "run" /\ call[k].op = "install" /\ regLock = j



\* ---------------------------------------------------- Background Coordinator
\* Work started over one run of the application: each start of the status
\* checks counts one plus one per task it spawns, each deletion counts one.
MaxWork == 3

\* What the machine may hold when a check of the application runs.
GuiWorlds == {"absent", "v1"}

\* The clone of a tool's configuration a running check works on.
CatalogCfg(id) == CHOOSE c \in Catalog : c.id = id

\* (C9 mutant) a check that leaves the status Unknown when the probe fails.
check_tool_status_of_undecided(cfg, w1, w2) ==
    IF is_tool_installed(cfg, w1)
    THEN LET v == get_current_version(cfg, w2)
         IN  IF v.ok THEN Installed(v.version) ELSE Error("Version check failed")
    ELSE Unknown

\* check_tool_status, from the machine states met by its two runs of the
\* version command.
check_tool_status_of(cfg, w1, w2) ==
    IF is_tool_installed(cfg, w1)
    THEN LET v == get_current_version(cfg, w2)
         IN  IF v.ok THEN Installed(v.version) ELSE Error("Version check failed")
    ELSE NotInstalled

\* CacheManager::set_tool_status
set_tool_status(cache, tool_id, status) == [cache EXCEPT ![tool_id] = Some(status)]

\* CacheManager::get_tool_status (no entry of the model has expired)
get_tool_status(cache, tool_id) == cache[tool_id]

\* CacheManager::invalidate_tool
invalidate_tool(cache, tool_id) == [cache EXCEPT ![tool_id] = None]

\* ConfigManager::remove_tool
remove_tool(tools, id) == SelectSeq(tools, LAMBDA t : t.id # id)

\* load_tools_with_cache: every configured tool with its cached status, or Unknown.
load_tools_with_cache(tools, cache) ==
    [i \in DOMAIN tools |->
        LET cached == get_tool_status(cache, tools[i].id)
        IN  [id |-> tools[i].id, status |-> IF IsSome(cached) THEN Unwrap(cached) ELSE Unknown]]

\* `for tool in tools.iter_mut() { if tool.config.id == tool_id { ...; break } }`
set_listed_status(tools, tool_id, status) ==
    LET hits == {i \in DOMAIN tools : tools[i].id = tool_id}
    IN  IF hits = {} THEN tools
        ELSE LET first == CHOOSE i \in hits : \A j \in hits : i <= j
             IN  [tools EXCEPT ![first].status = status]

Event(tool_id, status) == [tool_id |-> tool_id, status |-> status]

\* start_background_status_checking: one task per listed tool, none without ctx.
\* A task carries the events it has sent (history) and the position of the
\* persistence thread it detaches.
start_background_status_checking(ctx, tools, refresh) ==
    IF ~ctx THEN <<>>
    ELSE [i \in DOMAIN tools |->
             [tool |-> tools[i].id, refresh |-> refresh, pc |-> "spawned", res |-> "none",
              st |-> Unknown, sent |-> <<>>, thread |-> "none"]]

\* update_progress: each received event replaces the entry of its tool id, or
\* is pushed when there is none.
RECURSIVE update_progress(_, _)
update_progress(list, events) ==
    IF events = <<>> THEN list
    ELSE LET e == Head(events)
             hits == {i \in DOMAIN list : list[i].tool_id = e.tool_id}
             next == IF hits = {} THEN Append(list, e)
                     ELSE [list EXCEPT ![CHOOSE i \in hits : \A j \in hits : i <= j] = e]
         IN  update_progress(next, Tail(events))

\* What the application starts from: the configured tools, and what a
\* previous run left in tool_cache.json.
GuiSetups ==
    { [tools |-> <<NpmTool>>, stored |-> [t \in ToolIds |-> None]],
      [tools |-> <<NpmTool, ScriptTool>>,
       stored |-> [t \in ToolIds |-> IF t = "npmtool" THEN Some(Installed(V1)) ELSE None]] }

\* After CLIvergeApp::new: configuration and cache loaded, tools listed with
\* their cached status, no frame drawn yet.
InitGui ==
    /\ \E setup \in GuiSetups :
         /\ registry = setup.tools
         /\ cache_file = setup.stored
    /\ world = [t \in ToolIds |-> "absent"]
    /\ status_cache = [t \in ToolIds |-> None]
    /\ stamp = [t \in ToolIds |-> 0]
    /\ regLock = 0
    /\ cacheLock = 0
    /\ call = [k \in Calls |-> IdleCall]
    /\ cache_mem = cache_file
    /\ tools_cache = load_tools_with_cache(registry, cache_file)
    /\ config_file = {registry[i].id : i \in DOMAIN registry}
    /\ cmLock = <<>>
    /\ tasks = <<>>
    /\ savers = <<>>
    /\ progress = <<>>
    /\ status_progress = <<>>
    /\ ui = [ctx |-> FALSE, is_refreshing |-> FALSE, pc |-> "idle", work |-> 0]
    /\ AutoIdle
    /\ ProgIdle
    /\ FormIdle
    /\ SyncIdle
    /\ EvalIdle
    /\ StoreIdle

\* What a start of the checks takes of MaxWork: one for the call, one per task.
Cost(spawned) == IF spawned = <<>> THEN 0 ELSE Len(spawned) + 1

guiRest == <<world, stamp, cacheLock, call, auto, eval, store, prog, form, sync>>

Terminal == {"Completed", "Failed"}

\* eframe::App::update, up to the drawing: the first frame stores ctx and may
\* start the checks; update_progress drains the channel; the auto-check timer
\* may start the checks when no refresh is shown; is_refreshing is reset when
\* every listed progress entry is terminal.
update ==
    /\ ui.pc = "idle"
    /\ \E startup, timer \in BOOLEAN :
         LET first == ~ui.ctx
             n == Len(tools_cache)
             s1 == IF first /\ startup
                   THEN start_background_status_checking(TRUE, tools_cache, FALSE)
                   ELSE <<>>
             list == update_progress(status_progress, progress)
             auto_check == timer /\ ~ui.is_refreshing
             s2 == IF auto_check
                   THEN start_background_status_checking(TRUE, tools_cache, FALSE)
                   ELSE <<>>
             all_done == \A i \in DOMAIN list : list[i].status \in Terminal
         IN  /\ startup => first
             /\ timer => auto_check
             /\ ui.work + Cost(s1) + Cost(s2) <= MaxWork
             /\ tasks' = tasks \o s1 \o s2
             /\ status_progress' = list
             /\ progress' = <<>>
             /\ ui' = [ui EXCEPT !.ctx = TRUE, !.work = @ + Cost(s1) + Cost(s2),
                                 !.is_refreshing = IF @ /\ all_done /\ list # <<>> THEN FALSE ELSE @]
    /\ UNCHANGED <<registry, status_cache, regLock, tools_cache, cache_mem, cache_file,
                   config_file, cmLock, savers, guiRest>>

\* refresh_tools_with_progress, called while a frame is drawn.
refresh_tools_with_progress ==
    /\ ui.pc = "idle"
    /\ ui.ctx
    /\ LET spawned == start_background_status_checking(ui.ctx, tools_cache, TRUE)
       IN  /\ ui.work + Cost(spawned) <= MaxWork
           /\ tasks' = tasks \o spawned
           /\ ui' = [ui EXCEPT !.is_refreshing = TRUE, !.work = @ + Cost(spawned)]
    /\ status_progress' = [i \in DOMAIN tools_cache |-> Event(tools_cache[i].id, "Pending")]
    /\ UNCHANGED <<registry, status_cache, regLock, tools_cache, cache_mem, cache_file,
                   config_file, cmLock, savers, progress, guiRest>>

SetTask(i, t) == tasks' = [tasks EXCEPT ![i] = t]

\* `sender.send(..)`: the event joins the channel; the task remembers it.
Send(task, events) == [task EXCEPT !.sent = @ \o events]

\* The task starts: it sends the InProgress event and calls check_tool_status.
TaskStart(i) ==
    /\ tasks[i].pc = "spawned"
    /\ LET e == <<Event(tasks[i].tool, "InProgress")>>
       IN  /\ progress' = progress \o e
           /\ SetTask(i, [Send(tasks[i], e) EXCEPT !.pc = "lookup"])
    /\ UNCHANGED <<registry, status_cache, regLock, tools_cache, cache_mem, cache_file,
                   config_file, cmLock, savers, status_progress, ui, guiRest>>

\* check_tool_status: the locked look-up of the configuration.
TaskLookup(i) ==
    /\ tasks[i].pc = "lookup"
    /\ regLock = 0
    /\ SetTask(i, IF IsSome(get_tool_config(registry, tasks[i].tool))
                  THEN [tasks[i] EXCEPT !.pc = "checking"]
                  ELSE [tasks[i] EXCEPT !.pc = "failed", !.res = "NotFound"])
    /\ UNCHANGED <<registry, status_cache, regLock, tools_cache, cache_mem, cache_file,
                   config_file, cmLock, savers, progress, status_progress, ui, guiRest>>

\* check_tool_status returns: the version command has run, the manager has
\* cached the status.
TaskChecked(i) ==
    /\ tasks[i].pc = "checking"
    /\ \E w1, w2 \in GuiWorlds :
         /\ SetTask(i, [tasks[i] EXCEPT
                          !.pc = "ok", !.res = "Ok",
                          !.st = check_tool_status_of(CatalogCfg(tasks[i].tool), w1, w2)])
         /\ status_cache' = [status_cache EXCEPT ![tasks[i].tool] = Some(tasks'[i].st)]
    /\ UNCHANGED <<registry, regLock, tools_cache, cache_mem, cache_file,
                   config_file, cmLock, savers, progress, status_progress, ui, guiRest>>

\* The Ok arm: the persistence thread is spawned, the listed status is updated.
TaskApply(i) ==
    /\ tasks[i].pc = "ok"
    /\ tools_cache' = set_listed_status(tools_cache, tasks[i].tool, tasks[i].st)
    /\ SetTask(i, [tasks[i] EXCEPT !.pc = "applied", !.thread = "wait"])
    /\ UNCHANGED <<registry, status_cache, regLock, cache_mem, cache_file,
                   config_file, cmLock, savers, progress, status_progress, ui, guiRest>>

\* (C1 mutant) a failed check ends without an event.
terminal_event_ok_only(task) ==
    IF task.res = "Ok" THEN <<Event(task.tool, "Completed")>> ELSE <<>>

\* The event that ends the task: Completed in the Ok arm, Failed in the Err arm.
terminal_event(task) ==
    IF task.res = "Ok" THEN <<Event(task.tool, "Completed")>>
    ELSE <<Event(task.tool, "Failed")>>

TaskTerminal(i) ==
    /\ tasks[i].pc \in {"applied", "failed"}
    /\ LET e == terminal_event(tasks[i])
       IN  /\ progress' = progress \o e
           /\ SetTask(i, [Send(tasks[i], e) EXCEPT !.pc = "done"])
    /\ UNCHANGED <<registry, status_cache, regLock, tools_cache, cache_mem, cache_file,
                   config_file, cmLock, savers, status_progress, ui, guiRest>>

\* The persistence thread of a check takes the Cache Store lock and stores the
\* status (set_tool_status).
PersistLock(i) ==
    /\ tasks[i].thread = "wait"
    /\ cmLock = <<>>
    /\ cmLock' = <<"status", i>>
    /\ cache_mem' = set_tool_status(cache_mem, tasks[i].tool, tasks[i].st)
    /\ SetTask(i, [tasks[i] EXCEPT !.thread = "saving"])
    /\ UNCHANGED <<registry, status_cache, regLock, tools_cache, cache_file,
                   config_file, savers, progress, status_progress, ui, guiRest>>

\* (C33 mutant) the thread writes its own entry into the document it finds.
PersistSave_entry(i) ==
    /\ tasks[i].thread = "saving"
    /\ cache_file' = set_tool_status(cache_file, tasks[i].tool, tasks[i].st)
    /\ cmLock' = <<>>
    /\ SetTask(i, [tasks[i] EXCEPT !.thread = "done"])
    /\ UNCHANGED <<registry, status_cache, regLock, tools_cache, cache_mem,
                   config_file, savers, progress, status_progress, ui, guiRest>>

\* `cache.save().await` completes under the lock: the file holds the cache; the
\* guard is dropped when the block ends.
PersistSave(i) ==
    /\ tasks[i].thread = "saving"
    /\ cache_file' = cache_mem
    /\ cmLock' = <<>>
    /\ SetTask(i, [tasks[i] EXCEPT !.thread = "done"])
    /\ UNCHANGED <<registry, status_cache, regLock, tools_cache, cache_mem,
                   config_file, savers, progress, status_progress, ui, guiRest>>

\* The holder id of the registry lock for the thread of the d-th deletion.
ConfigSaver(d) == NumCalls + d

\* delete_tool, first half: under the registry lock the tool leaves the
\* configuration and the thread that saves it is spawned; the tool leaves the list.
delete_tool(tool_id) ==
    /\ ui.pc = "idle"
    /\ ui.ctx
    /\ ui.work < MaxWork
    /\ \E i \in DOMAIN tools_cache : tools_cache[i].id = tool_id
    /\ regLock = 0
    /\ registry' = remove_tool(registry, tool_id)
    /\ savers' = Append(savers, [tool |-> tool_id, config |-> "wait", cache |-> "none"])
    /\ tools_cache' = SelectSeq(tools_cache, LAMBDA t : t.id # tool_id)
    /\ ui' = [ui EXCEPT !.pc = "deleting", !.work = @ + 1]
    /\ UNCHANGED <<status_cache, regLock, cache_mem, cache_file, config_file, cmLock, tasks,
                   progress, status_progress, guiRest>>

\* delete_tool, second half: under the Cache Store lock the tool's entries are
\* invalidated and the thread that saves the cache is spawned.
delete_tool_cache ==
    /\ ui.pc = "deleting"
    /\ cmLock = <<>>
    /\ cache_mem' = invalidate_tool(cache_mem, savers[Len(savers)].tool)
    /\ savers' = [savers EXCEPT ![Len(savers)].cache = "wait"]
    /\ ui' = [ui EXCEPT !.pc = "idle"]
    /\ UNCHANGED <<registry, status_cache, regLock, tools_cache, cache_file, config_file,
                   cmLock, tasks, progress, status_progress, guiRest>>

\* The thread saving the configuration takes the registry lock.
ConfigSaveLock(d) ==
    /\ savers[d].config = "wait"
    /\ regLock = 0
    /\ regLock' = ConfigSaver(d)
    /\ savers' = [savers EXCEPT ![d].config = "saving"]
    /\ UNCHANGED <<registry, status_cache, tools_cache, cache_mem, cache_file, config_file,
                   cmLock, tasks, progress, status_progress, ui, guiRest>>

\* `config.save().await` completes under the lock.
ConfigSave(d) ==
    /\ savers[d].config = "saving"
    /\ config_file' = {registry[i].id : i \in DOMAIN registry}
    /\ regLock' = 0
    /\ savers' = [savers EXCEPT ![d].config = "done"]
    /\ UNCHANGED <<registry, status_cache, tools_cache, cache_mem, cache_file,
                   cmLock, tasks, progress, status_progress, ui, guiRest>>

\* The thread saving the cache after a deletion takes the Cache Store lock.
CacheSaveLock(d) ==
    /\ savers[d].cache = "wait"
    /\ cmLock = <<>>
    /\ cmLock' = <<"cachesave", d>>
    /\ savers' = [savers EXCEPT ![d].cache = "saving"]
    /\ UNCHANGED <<registry, status_cache, regLock, tools_cache, cache_mem, cache_file,
                   config_file, tasks, progress, status_progress, ui, guiRest>>

\* `cache.save().await` completes under the lock.
CacheSave(d) ==
    /\ savers[d].cache = "saving"
    /\ cache_file' = cache_mem
    /\ cmLock' = <<>>
    /\ savers' = [savers EXCEPT ![d].cache = "done"]
    /\ UNCHANGED <<registry, status_cache, regLock, tools_cache, cache_mem,
                   config_file, tasks, progress, status_progress, ui, guiRest>>

TaskStep(i) ==
    \/ TaskStart(i)
    \/ TaskLookup(i)
    \/ TaskChecked(i)
    \/ TaskApply(i)
    \/ TaskTerminal(i)

NextGui ==
    \/ update
    \/ refresh_tools_with_progress
    \/ \E i \in DOMAIN tasks : TaskStart(i)
    \/ \E i \in DOMAIN tasks : TaskLookup(i)
    \/ \E i \in DOMAIN tasks : TaskChecked(i)
    \/ \E i \in DOMAIN tasks : TaskApply(i)
    \/ \E i \in DOMAIN tasks : TaskTerminal(i)
    \/ \E i \in DOMAIN tasks : PersistLock(i)
    \/ \E i \in DOMAIN tasks : PersistSave(i)
    \/ \E t \in ToolIds : delete_tool(t)
    \/ delete_tool_cache
    \/ \E d \in DOMAIN savers : ConfigSaveLock(d)
    \/ \E d \in DOMAIN savers : ConfigSave(d)
    \/ \E d \in DOMAIN savers : CacheSaveLock(d)
    \/ \E d \in DOMAIN savers : CacheSave(d)

SpecGui == InitGui /\ [][NextGui]_vars

\* The runtime keeps running the spawned tasks, and a thread that holds the
\* registry lock finishes its write.
SpecGuiFair ==
    /\ SpecGui
    /\ WF_vars(\E i \in DOMAIN tasks : TaskStep(i))
    /\ WF_vars(\E d \in DOMAIN savers : ConfigSave(d))

\* ------------------------------------------- Background Coordinator claims
SentBy(i) == tasks[i].sent

\* What a task may have sent so far: nothing, InProgress, or InProgress and
\* then one terminal event; every event carries the task's tool id.
OneInProgressThenOneTerminal(i) ==
    /\ Len(SentBy(i)) <= 2
    /\ \A n \in DOMAIN SentBy(i) : SentBy(i)[n].tool_id = tasks[i].tool
    /\ Len(SentBy(i)) >= 1 => SentBy(i)[1].status = "InProgress"
    /\ Len(SentBy(i)) = 2 => SentBy(i)[2].status \in Terminal
    /\ tasks[i].pc = "done" <=> Len(SentBy(i)) = 2
    /\ tasks[i].pc = "spawned" <=> Len(SentBy(i)) = 0

\* Every event a task sends in a step joins the channel in that step.
SentIsDelivered ==
    \A i \in DOMAIN tasks :
        tasks'[i].sent # tasks[i].sent =>
            /\ Len(tasks'[i].sent) = Len(tasks[i].sent) + 1
            /\ progress' = Append(progress, tasks'[i].sent[Len(tasks'[i].sent)])

TerminalsSent ==
    Cardinality({i \in DOMAIN tasks : \E n \in DOMAIN SentBy(i) : SentBy(i)[n].status \in Terminal})

\* C1: every status-check task sends exactly one InProgress event and then
\* exactly one terminal event (Completed or Failed) tagged with its tool id,
\* every such event is delivered to the channel, and every spawned task gets
\* there: when the N tasks of a refresh have ended, N terminal events were sent.
C1_OneTerminalPerTask ==
    /\ [](\A i \in DOMAIN tasks : OneInProgressThenOneTerminal(i))
    /\ []((\A i \in DOMAIN tasks : tasks[i].pc = "done") => TerminalsSent = Len(tasks))
    /\ [][SentIsDelivered]_vars
    /\ []<>(\A i \in DOMAIN tasks : tasks[i].pc = "done")

\* Two tools were refreshed; the check of the second ended first, and the four
\* events are in the channel.
C1_Witness ==
    /\ Len(tasks) = 2
    /\ \A i \in DOMAIN tasks : tasks[i].pc = "done" /\ tasks[i].refresh
    /\ Len(progress) = 4
    /\ progress[3] = SentBy(2)[2]
    /\ progress[4] = SentBy(1)[2]
    /\ tasks[1].tool # tasks[2].tool

\* C8 (as claimed): no thread holds the Cache Store lock or the registry lock
\* while its file write is in progress.
C8_Claim ==
    /\ \A i \in DOMAIN tasks : tasks[i].thread = "saving" => cmLock # <<"status", i>>
    /\ \A d \in DOMAIN savers :
         /\ savers[d].cache = "saving" => cmLock # <<"cachesave", d>>
         /\ savers[d].config = "saving" => regLock # ConfigSaver(d)

Decided == {"Installed", "NotInstalled", "Error"}

\* The listed status of a tool; None when the tool is not listed.
Listed(tools, id) ==
    LET hits == {n \in DOMAIN tools : tools[n].id = id}
    IN  IF hits = {} THEN None ELSE Some(tools[CHOOSE n \in hits : TRUE].status)

NoUnknownStored ==
    \A t \in ToolIds :
        /\ IsSome(cache_file[t]) => Unwrap(cache_file[t]).kind \in Decided
        /\ IsSome(cache_mem[t]) => Unwrap(cache_mem[t]).kind \in Decided

\* A status enters the Cache Store, and a listed status leaves Unknown, only as
\* the status returned by a check of that tool.
OnlyChecksDecide ==
    \A t \in ToolIds :
        /\ cache_mem'[t] # cache_mem[t] /\ IsSome(cache_mem'[t]) =>
              \E i \in DOMAIN tasks :
                  /\ tasks[i].tool = t /\ tasks[i].res = "Ok"
                  /\ cache_mem'[t] = Some(tasks[i].st)
        /\ Listed(tools_cache, t) = Some(Unknown) /\ Listed(tools_cache', t) # Some(Unknown)
           /\ IsSome(Listed(tools_cache', t)) =>
              \E i \in DOMAIN tasks :
                  /\ tasks[i].tool = t /\ tasks[i].pc = "ok" /\ tasks'[i].pc # "ok"
                  /\ Listed(tools_cache', t) = Some(tasks[i].st)

\* C9: neither the Cache Store nor its file ever holds an Unknown status; a
\* status is stored only as the result of a check, and a listed status leaves
\* Unknown only as the result of a check.
C9_NoUnknownPersisted == []NoUnknownStored /\ [][OnlyChecksDecide]_vars

\* The check of a tool that was listed Unknown has been listed and saved.
C9_Witness ==
    \E i \in DOMAIN tasks :
        /\ tasks[i].tool = "scripttool"
        /\ tasks[i].thread = "done"
        /\ cache_file["scripttool"] = Some(tasks[i].st)
        /\ Listed(tools_cache, "scripttool") = Some(tasks[i].st)


\* ---------------------------------------------------------- Version Resolver
Str_current == <<"c", "u", "r", "r", "e", "n", "t">>
Str_up_to_date == <<"u", "p", " ", "t", "o", " ", "d", "a", "t", "e">>
Str_already_latest == <<"a", "l", "r", "e", "a", "d", "y", " ", "l", "a", "t", "e", "s", "t">>
Str_update == <<"u", "p", "d", "a", "t", "e">>
Str_available == <<"a", "v", "a", "i", "l", "a", "b", "l", "e">>
Str_new == <<"n", "e", "w">>
Str_latest == <<"l", "a", "t", "e", "s", "t">>

\* `haystack.contains(needle)`
OccursAt(s, w, i) == i + Len(w) - 1 <= Len(s) /\ Slice(s, i, i + Len(w)) = w
Contains(s, w) == \E i \in 1..Len(s) : OccursAt(s, w, i)

\* Where a number (\d+\.\d+\.\d+(?:\.\d+)?) can start at or after position from.
NumberStarts(s, from) == {p \in from..Len(s) : MatchNumber(s, p) > 0}

\* first.*second.*v?(number), both `.*` greedy: the capture is the rightmost
\* number that follows an occurrence of first and, after it, of second.
GreedyStarts(s, first, second) ==
    UNION { UNION { NumberStarts(s, j + Len(second)) :
                      j \in {j \in (i + Len(first))..(Len(s) + 1) : OccursAt(s, second, j)} } :
              i \in {i \in 1..Len(s) : OccursAt(s, first, i)} }

Rightmost(S) == CHOOSE p \in S : \A q \in S : q <= p

GreedyCapture(s, first, second) ==
    IF GreedyStarts(s, first, second) = {} THEN None
    ELSE Some(Slice(s, Rightmost(GreedyStarts(s, first, second)),
                    MatchNumber(s, Rightmost(GreedyStarts(s, first, second)))))

FirstOf(captures, otherwise) ==
    IF \E n \in DOMAIN captures : IsSome(captures[n])
    THEN Unwrap(captures[CHOOSE n \in DOMAIN captures :
                            IsSome(captures[n]) /\ \A m \in 1..(n - 1) : ~IsSome(captures[m])])
    ELSE otherwise

parse_latest_version_from_output(output) ==
    IF Contains(output, Str_up_to_date) \/ Contains(output, Str_already_latest)
    THEN Str_current
    ELSE FirstOf(<<GreedyCapture(output, Str_update, Str_available),
                   GreedyCapture(output, Str_new, Str_version),
                   GreedyCapture(output, Str_latest, <<>>)>>,
                 parse_version_string(output))

\* `v.trim_start_matches('v')`
RECURSIVE TrimV(_)
TrimV(v) == IF v # <<>> /\ Head(v) = "v" THEN TrimV(Tail(v)) ELSE v

\* `split('.')`
RECURSIVE SplitDots(_, _)
SplitDots(v, part) ==
    IF v = <<>> THEN <<part>>
    ELSE IF Head(v) = "." THEN <<part>> \o SplitDots(Tail(v), <<>>)
    ELSE SplitDots(Tail(v), Append(part, Head(v)))

DigitValue(d) == CHOOSE n \in 0..9 : <<"0", "1", "2", "3", "4", "5", "6", "7", "8", "9">>[n + 1] = d

RECURSIVE ToNat(_, _)
ToNat(part, acc) ==
    IF part = <<>> THEN acc ELSE ToNat(Tail(part), 10 * acc + DigitValue(Head(part)))

IsNumber(part) == part # <<>> /\ \A n \in DOMAIN part : part[n] \in Digits

\* `filter_map(|part| part.parse::<u32>().ok())`
RECURSIVE Numbers(_)
Numbers(parts) ==
    IF parts = <<>> THEN <<>>
    ELSE IF IsNumber(Head(parts)) THEN <<ToNat(Head(parts), 0)>> \o Numbers(Tail(parts))
    ELSE Numbers(Tail(parts))

parse_version(v) == Numbers(SplitDots(TrimV(v), <<>>))

\* The zip loop, then the comparison of the lengths.
RECURSIVE NewerParts(_, _, _)
NewerParts(new, cur, n) ==
    IF n > Len(new) \/ n > Len(cur) THEN Len(new) > Len(cur)
    ELSE IF new[n] > cur[n] THEN TRUE
    ELSE IF new[n] < cur[n] THEN FALSE
    ELSE NewerParts(new, cur, n + 1)

is_version_newer(new_version, current_version) ==
    NewerParts(parse_version(new_version), parse_version(current_version), 1)

\* VersionChecker::compare_versions
update_available(current, latest) ==
    IF IsSome(current) /\ IsSome(latest)
    THEN IF Unwrap(latest) = Str_current THEN FALSE
         ELSE is_version_newer(Unwrap(latest), Unwrap(current))
    ELSE FALSE

\* ToolManager::compare_versions: the parts that parse as numbers, compared
\* position by position up to the longer length, a missing part being 0.
RECURSIVE CompareParts(_, _, _)
CompareParts(current_parts, latest_parts, i) ==
    IF i > Len(current_parts) /\ i > Len(latest_parts) THEN "Equal"
    ELSE LET current_part == IF i <= Len(current_parts) THEN current_parts[i] ELSE 0
             latest_part == IF i <= Len(latest_parts) THEN latest_parts[i] ELSE 0
         IN  IF current_part < latest_part THEN "Less"
             ELSE IF current_part > latest_part THEN "Greater"
             ELSE CompareParts(current_parts, latest_parts, i + 1)

compare_versions(current, latest) ==
    CompareParts(Numbers(SplitDots(current, <<>>)), Numbers(SplitDots(latest, <<>>)), 1)

has_updates_available(version_info) ==
    IF IsSome(version_info.current) /\ IsSome(version_info.latest)
    THEN compare_versions(Unwrap(version_info.current), Unwrap(version_info.latest)) = "Less"
    ELSE FALSE

VersionInfo(current, latest, method) ==
    [ok |-> TRUE, current |-> current, latest |-> latest,
     update_available |-> update_available(current, latest), check_method |-> method]


\* Configurations the resolver is asked about.  The update command takes no
\* arguments in one, the install table has no entry for this platform in another.
EmptyUpdateCheck == [NpmTool EXCEPT !.id = "emptycheck", !.update_check = Some(<<>>)]
NoInstallHere ==
    [NpmTool EXCEPT !.id = "noinstall", !.update_check = None,
                    !.install = [p \in {"windows"} |-> InstallMethod("npm", None, Some("npm-pkg"))]]
NpmNoUpdateCheck == [NpmTool EXCEPT !.id = "npmplain", !.update_check = None]
ResolverConfigs == {NpmTool, ScriptTool, EmptyUpdateCheck, NoInstallHere, NpmNoUpdateCheck}

\* VersionChecker::local_db: the database failed to load, or lists some tools.
LocalDbs == {None, Some([t \in {"npmtool", "npmplain", "noinstall"} |-> V2])}

Strategies == {"Auto", "SelfCheck", "PackageManager", "LocalDatabase"}

\* stdout of an update-check command that exits zero.
UpdateOutputs == {<<"u", "p", " ", "t", "o", " ", "d", "a", "t", "e">>, <<"u", "p", "d", "a", "t", "e", " ", "a", "v", "a", "i", "l", "a", "b", "l", "e", " ", "v", "2", ".", "0", ".", "0">>, <<"o", "k">>}

\* `update_check.is_empty()`
IsEmpty(m) == DOMAIN m = {}

HasUpdateCheck(cfg) == IsSome(cfg.update_check) /\ ~IsEmpty(Unwrap(cfg.update_check))

\* `self.get_current_version(tool_config).await.ok()`
CurrentOk(cfg, w) ==
    IF RunExit(w) = "zero" THEN Some(parse_version_string(VersionStdout(cfg, w))) ELSE None

Failure(kind) == [ok |-> FALSE, error |-> kind]

\* The call has not been made.
InitAuto ==
    /\ registry = <<>>
    /\ world = [t \in ToolIds |-> "absent"]
    /\ status_cache = [t \in ToolIds |-> None]
    /\ stamp = [t \in ToolIds |-> 0]
    /\ regLock = 0
    /\ cacheLock = 0
    /\ call = [k \in Calls |-> IdleCall]
    /\ GuiIdle
    /\ EvalIdle
    /\ StoreIdle
    /\ ProgIdle
    /\ FormIdle
    /\ SyncIdle
    /\ \E cfg \in ResolverConfigs, db \in LocalDbs :
         auto = [pc |-> "start", cfg |-> cfg, local_db |-> db, strategy |-> "none",
                 tried |-> <<>>, update_exit |-> "none", update_output |-> <<>>,
                 lookup |-> "none",
                 result |-> Failure("none")]

Tried(name, outcome) == [strategy |-> name, outcome |-> outcome]

\* check_version: the match on the strategy.
check_version ==
    /\ auto.pc = "start"
    /\ \E strategy \in Strategies :
         auto' = [auto EXCEPT !.strategy = strategy,
                              !.pc = CASE strategy = "Auto" -> "auto"
                                       [] strategy = "SelfCheck" -> "self"
                                       [] strategy = "PackageManager" -> "pm"
                                       [] OTHER -> "db"]
    /\ UNCHANGED <<registry, mgrVars, guiVars, eval, store, prog, form, sync>>

\* auto_check, priority 1: only a configured, non-empty update check is tried.
auto_check ==
    /\ auto.pc = "auto"
    /\ auto' = [auto EXCEPT !.pc = IF HasUpdateCheck(auto.cfg) THEN "self" ELSE "pm"]
    /\ UNCHANGED <<registry, mgrVars, guiVars, eval, store, prog, form, sync>>

\* A strategy returned Ok: check_version hands the info to the caller.
Returned_ok(a, name, info) ==
    [a EXCEPT !.pc = "done", !.result = info, !.tried = Append(@, Tried(name, "ok"))]

\* A strategy returned Err: auto_check goes on to next, a direct call fails.
Returned_err(a, name, kind, next) ==
    IF a.strategy = "Auto"
    THEN [a EXCEPT !.pc = next, !.tried = Append(@, Tried(name, "err"))]
    ELSE [a EXCEPT !.pc = "done", !.result = Failure(kind),
                   !.tried = Append(@, Tried(name, "err"))]

\* check_via_self_update: only a command that cannot be spawned is an Err; a
\* non-zero exit is Ok with no latest version.
check_via_self_update ==
    /\ auto.pc = "self"
    /\ \E w \in WorldStates, exit \in Exits, output \in UpdateOutputs :
         IF ~HasUpdateCheck(auto.cfg)
         THEN auto' = Returned_ok(auto, "self-check",
                                  VersionInfo(CurrentOk(auto.cfg, w), None, "self-check"))
         ELSE IF exit = "spawn_failed"
         THEN auto' = Returned_err([auto EXCEPT !.update_exit = exit],
                                   "self-check", "ExecutionFailed", "pm")
         ELSE auto' = Returned_ok([auto EXCEPT !.update_exit = exit,
                                               !.update_output =
                                                   IF exit = "zero" THEN output ELSE <<>>],
                                  "self-check",
                                  VersionInfo(CurrentOk(auto.cfg, w),
                                              IF exit = "zero"
                                              THEN Some(parse_latest_version_from_output(output))
                                              ELSE None,
                                              "self-check"))
    /\ UNCHANGED <<registry, mgrVars, guiVars, eval, store, prog, form, sync>>

\* extract_package_name_from_config for a method that matches the install entry.
extract_package_name_from_config(m) ==
    IF IsSome(m.package_name) THEN m.package_name
    ELSE IF IsSome(m.command) /\ Unwrap(m.command) # <<>>
    THEN Some(Unwrap(m.command)[Len(Unwrap(m.command))])
    ELSE None

\* check_npm_version(..).ok(): `npm view <package> version`, stdout trimmed.
check_npm_version(m, exit) ==
    IF IsSome(extract_package_name_from_config(m)) /\ exit = "zero" THEN Some(V2) ELSE None

\* check_via_package_manager: Err only when the install table has no entry for
\* the platform; a lookup that fails leaves latest empty and the result Ok.
\* (No configuration of the model installs by brew or pip.)
check_via_package_manager ==
    /\ auto.pc = "pm"
    /\ \E w \in WorldStates, exit \in Exits :
         IF ~IsSome(Get(auto.cfg.install, OS))
         THEN auto' = Returned_err(auto, "package-manager", "NotSupported", "db")
         ELSE IF Unwrap(Get(auto.cfg.install, OS)).method = "npm"
         THEN auto' = Returned_ok(
                        [auto EXCEPT !.lookup =
                            IF IsSome(check_npm_version(Unwrap(Get(auto.cfg.install, OS)), exit))
                            THEN "found" ELSE "failed"],
                        "package-manager",
                        VersionInfo(CurrentOk(auto.cfg, w),
                                    check_npm_version(Unwrap(Get(auto.cfg.install, OS)), exit),
                                    <<"package-manager", "npm">>))
         ELSE /\ exit = "zero"
              /\ auto' = Returned_ok(
                           [auto EXCEPT !.lookup = "unsupported"], "package-manager",
                           VersionInfo(CurrentOk(auto.cfg, w), None,
                                       <<"package-manager",
                                         Unwrap(Get(auto.cfg.install, OS)).method>>))
    /\ UNCHANGED <<registry, mgrVars, guiVars, eval, store, prog, form, sync>>

\* check_via_local_database: always Ok; latest is what the database lists.
check_via_local_database ==
    /\ auto.pc = "db"
    /\ \E w \in WorldStates :
         auto' = Returned_ok(auto, "local-database",
                             VersionInfo(CurrentOk(auto.cfg, w),
                                         IF IsSome(auto.local_db)
                                         THEN Get(Unwrap(auto.local_db), auto.cfg.id)
                                         ELSE None,
                                         "local-database"))
    /\ UNCHANGED <<registry, mgrVars, guiVars, eval, store, prog, form, sync>>

NextAuto ==
    \/ check_version
    \/ auto_check
    \/ check_via_self_update
    \/ check_via_package_manager
    \/ check_via_local_database

\* Every command the resolver spawns exits, so every step that is enabled is
\* eventually taken.
SpecAuto == InitAuto /\ [][NextAuto]_vars /\ WF_vars(NextAuto)

\* ------------------------------------------------ claims on the Version Resolver
Attempted(name) == \E n \in DOMAIN auto.tried : auto.tried[n].strategy = name
Erred(name) ==
    \E n \in DOMAIN auto.tried : auto.tried[n].strategy = name /\ auto.tried[n].outcome = "err"

\* SelfCheck was not attempted, or its command failed (could not be spawned or
\* exited non-zero).
SelfCheckFailed == ~Attempted("self-check") \/ auto.update_exit \in {"spawn_failed", "nonzero"}

\* The package manager lookup errored: no install entry for the platform, or
\* the lookup command failed.
PackageManagerFailed == Erred("package-manager") \/ auto.lookup = "failed"

AutoReturned == auto.pc = "done" /\ auto.strategy = "Auto"

\* C10: under Auto, SelfCheck is attempted only when an updateCheck is
\* configured; if SelfCheck is not attempted or errors and the PackageManager
\* lookup also errors, the result Auto returns is sourced from LocalDatabase
\* (or is an error).
C10_Claim ==
    AutoReturned =>
        /\ Attempted("self-check") => IsSome(auto.cfg.update_check)
        /\ (SelfCheckFailed /\ PackageManagerFailed)
              => (auto.result.ok => auto.result.check_method = "local-database")

\* C10: Auto always returns, never hangs.
C10_AlwaysReturns == <>(auto.pc = "done")

\* ------------------------------------------------ applications of pure functions
\* No manager, no application and no resolver call is running.
ManagerOff ==
    /\ registry = <<>>
    /\ world = [t \in ToolIds |-> "absent"]
    /\ status_cache = [t \in ToolIds |-> None]
    /\ stamp = [t \in ToolIds |-> 0]
    /\ regLock = 0
    /\ cacheLock = 0
    /\ call = [k \in Calls |-> IdleCall]
    /\ GuiIdle

\* Versions are drawn as tuples of numbers and written out as text.
MaxParts == 3
Components == {0, 1, 2, 10}
VersionTuples == UNION {[1..n -> Components] : n \in 1..MaxParts}

DigitText(n) == <<"0", "1", "2", "3", "4", "5", "6", "7", "8", "9">>[n + 1]

RECURSIVE NatText(_)
NatText(n) == IF n < 10 THEN <<DigitText(n)>> ELSE NatText(n \div 10) \o <<DigitText(n % 10)>>

RECURSIVE Dotted(_)
Dotted(parts) ==
    IF Len(parts) = 1 THEN NatText(parts[1])
    ELSE NatText(parts[1]) \o <<".">> \o Dotted(Tail(parts))

\* Command output is drawn as a run of at most MaxTokens tokens.
MaxTokens == 3
Tokens == {<<"v", "e", "r", "s", "i", "o", "n", " ">>, <<"v">>, V1, V2, <<"1", ".", "2">>, <<"-", "b", "e", "t", "a">>, <<" ">>}

RECURSIVE Concat(_)
Concat(ts) == IF ts = <<>> THEN <<>> ELSE Head(ts) \o Concat(Tail(ts))

Outputs == {Concat(ts) : ts \in UNION {[1..n -> Tokens] : n \in 0..MaxTokens}}

\* The latest version a check reports: a version, with or without the "v" of
\* a tag, or the sentinel of an up-to-date self check.
LatestTexts == {prefix \o Dotted(v) : prefix \in {<<>>, <<"v">>}, v \in VersionTuples} \cup {Str_current}

EvalInput(fn, new, current, output) ==
    [pc |-> "input", fn |-> fn, new |-> new, current |-> current, output |-> output,
     result |-> <<>>]

InitText ==
    /\ ManagerOff
    /\ AutoIdle
    /\ ProgIdle
    /\ FormIdle
    /\ SyncIdle
    /\ StoreIdle
    /\ \/ \E new \in VersionTuples, current \in VersionTuples, prefix \in {<<>>, <<"v">>} :
            eval = EvalInput("is_version_newer", [parts |-> new, text |-> prefix \o Dotted(new)],
                             [parts |-> current, text |-> Dotted(current)], <<>>)
       \/ \E output \in Outputs :
            eval = EvalInput("parse_version_string", <<>>, <<>>, output)
       \/ \E current \in VersionTuples, latest \in LatestTexts :
            eval = EvalInput("has_updates_available", [text |-> latest],
                             [parts |-> current, text |-> Dotted(current)], <<>>)

is_version_newer_applied ==
    /\ eval.pc = "input"
    /\ eval.fn = "is_version_newer"
    /\ eval' = [eval EXCEPT !.pc = "done",
                            !.result = is_version_newer(eval.new.text, eval.current.text)]
    /\ UNCHANGED <<registry, mgrVars, guiVars, auto, store, prog, form, sync>>

parse_version_string_applied ==
    /\ eval.pc = "input"
    /\ eval.fn = "parse_version_string"
    /\ eval' = [eval EXCEPT !.pc = "done", !.result = parse_version_string(eval.output)]
    /\ UNCHANGED <<registry, mgrVars, guiVars, auto, store, prog, form, sync>>

\* ToolManager::has_updates_available on the VersionInfo that
\* check_version_updates returns for the tool.
has_updates_available_applied ==
    /\ eval.pc = "input"
    /\ eval.fn = "has_updates_available"
    /\ LET version_info == VersionInfo(Some(eval.current.text), Some(eval.new.text), "SelfCheck")
       IN  eval' = [eval EXCEPT !.pc = "done",
                                !.result = [version_info |-> version_info,
                                            has_updates |-> has_updates_available(version_info)]]
    /\ UNCHANGED <<registry, mgrVars, guiVars, auto, store, prog, form, sync>>

NextText ==
    \/ is_version_newer_applied
    \/ parse_version_string_applied
    \/ has_updates_available_applied

SpecText == InitText /\ [][NextText]_vars

\* ------------------------------------------------ claims on the pure functions
\* Component n of a version, missing trailing components being zero.
Part(parts, n) == IF n <= Len(parts) THEN parts[n] ELSE 0

\* latest is strictly greater than current as tuples padded with zeros.
StrictlyGreater(latest, current) ==
    \E n \in 1..MaxParts :
        /\ Part(latest, n) > Part(current, n)
        /\ \A m \in 1..(n - 1) : Part(latest, m) = Part(current, m)

Compared == eval.pc = "done" /\ eval.fn = "is_version_newer"

\* C11: isNewer(latest, current) compares the versions component-wise as
\* tuples of integers, missing trailing components being zero, and is true
\* exactly when latest is strictly greater; so isNewer(v, v) is false and
\* versions that differ only by trailing zeros are not newer than each other.
C11_Claim ==
    Compared => (eval.result <=> StrictlyGreater(eval.new.parts, eval.current.parts))

Extracted == eval.pc = "done" /\ eval.fn = "parse_version_string"

\* The extraction with the patterns tried in the order (a) after the word
\* "version", (b) v?X.Y.Z(.W) anywhere, (c) X.Y.Z(.W) anywhere.
InClaimedOrder(a, b, c) ==
    IF IsSome(a) THEN Unwrap(a)
    ELSE IF IsSome(b) THEN Unwrap(b)
    ELSE IF IsSome(c) THEN Unwrap(c)
    ELSE Str_unknown

\* C12: the extraction tries (a) a number right after the word "version",
\* (b) a v-prefixed-or-not number anywhere, (c) a bare number anywhere, in
\* that order; the first pattern that matches decides, no match is "unknown".
C12_Claim ==
    Extracted =>
        eval.result = InClaimedOrder(Captures(2, eval.output, 1), Captures(1, eval.output, 1),
                                     Captures(3, eval.output, 1))

\* ----------------------------------------------------- decoding of ToolConfig
\* A JSON document for the field: absent, null, a string, an array of items or
\* an object given by its entries in document order.  An item or an entry's
\* value is of the type the visitor asks for, or of another type.
MaxArgs == 2
MaxEntries == 2

JsonString(text) == [t |-> "string", v |-> text]
JsonNumber == [t |-> "number", v |-> "1"]
JsonItems == {JsonString("--version"), JsonString("-V"), JsonNumber}
JsonArrays == UNION {[1..n -> JsonItems] : n \in 0..MaxArgs}
JsonArray(items) == [kind |-> "array", items |-> items, entries |-> <<>>]
JsonKeys == {"windows", "linux", "freebsd"}
JsonValues == {JsonArray(<<>>), JsonArray(<<JsonString("--version")>>),
               JsonArray(<<JsonString("-V"), JsonString("--version")>>),
               JsonArray(<<JsonNumber>>),
               [kind |-> "string", items |-> <<>>, entries |-> <<>>]}
JsonEntries == UNION {[1..n -> JsonKeys \X JsonValues] : n \in 0..MaxEntries}
JsonDocs ==
    {[kind |-> k, items |-> <<>>, entries |-> <<>>] : k \in {"absent", "null", "string"}}
    \cup {JsonArray(items) : items \in JsonArrays}
    \cup {[kind |-> "object", items |-> <<>>, entries |-> es] : es \in JsonEntries}

DecodeOk(value) == [ok |-> TRUE, value |-> value]
DecodeErr(e) == [ok |-> FALSE, value |-> e]

\* `while let Some(item) = seq.next_element::<String>()? { vec.push(item) }`
RECURSIVE next_elements(_, _)
next_elements(items, vec) ==
    IF items = <<>> THEN DecodeOk(vec)
    ELSE IF Head(items).t # "string" THEN DecodeErr("invalid type")
    ELSE next_elements(Tail(items), Append(vec, Head(items).v))

\* Deserialize for Vec<String>
VecString(doc) ==
    IF doc.kind = "array" THEN next_elements(doc.items, <<>>) ELSE DecodeErr("invalid type")

\* HashMap::insert
Insert(map, key, value) ==
    [k \in DOMAIN map \cup {key} |-> IF k = key THEN value ELSE map[k]]

EmptyMap == [k \in {} |-> <<>>]

\* `while let Some((key, value)) = map_access.next_entry::<String, Vec<String>>()? { map.insert(key, value) }`
RECURSIVE next_entries(_, _)
InsertOrFail(value, key, rest, map) ==
    IF value.ok THEN next_entries(rest, Insert(map, key, value.value)) ELSE value
next_entries(entries, map) ==
    IF entries = <<>> THEN DecodeOk(map)
    ELSE InsertOrFail(VecString(Head(entries)[2]), Head(entries)[1], Tail(entries), map)

\* VersionCheckVisitor::visit_seq (C13 mutant): the list kept for this platform only.
visit_seq_one_platform(vec) == DecodeOk([p \in {OS} |-> vec])

\* VersionCheckVisitor::visit_seq: the list under each of the three platforms.
visit_seq(vec) ==
    DecodeOk(Insert(Insert(Insert(EmptyMap, "windows", vec), "macos", vec), "linux", vec))

AndThen(r, f(_)) == IF r.ok THEN f(r.value) ELSE r

\* deserialize_version_check; the field has no default, so it must be present.
deserialize_version_check(doc) ==
    CASE doc.kind = "absent" -> DecodeErr("missing field")
      [] doc.kind = "array" -> AndThen(next_elements(doc.items, <<>>), visit_seq)
      [] doc.kind = "object" -> next_entries(doc.entries, EmptyMap)
      [] OTHER -> DecodeErr("invalid type")

\* UpdateCheckVisitor::visit_seq (C14 mutant): an empty list refused.
update_visit_seq_strict(vec) ==
    IF vec = <<>> THEN DecodeErr("invalid length") ELSE DecodeOk(Some(visit_seq(vec).value))

\* UpdateCheckVisitor::visit_seq: no list is no support, else the broadcast.
update_visit_seq(vec) ==
    IF vec = <<>> THEN DecodeOk(None) ELSE DecodeOk(Some(visit_seq(vec).value))

SomeOf(map) == DecodeOk(Some(map))

\* deserialize_update_check; `default` makes an absent field None.
deserialize_update_check(doc) ==
    CASE doc.kind \in {"absent", "null"} -> DecodeOk(None)
      [] doc.kind = "array" -> AndThen(next_elements(doc.items, <<>>), update_visit_seq)
      [] doc.kind = "object" -> AndThen(next_entries(doc.entries, EmptyMap), SomeOf)
      [] OTHER -> DecodeErr("invalid type")

InitDecode ==
    /\ ManagerOff
    /\ AutoIdle
    /\ ProgIdle
    /\ FormIdle
    /\ SyncIdle
    /\ StoreIdle
    /\ \E doc \in JsonDocs, field \in {"version_check", "update_check"} :
         eval = [pc |-> "input", fn |-> field, doc |-> doc, result |-> DecodeErr("none")]

deserialize_version_check_applied ==
    /\ eval.pc = "input"
    /\ eval.fn = "version_check"
    /\ eval' = [eval EXCEPT !.pc = "done", !.result = deserialize_version_check(eval.doc)]
    /\ UNCHANGED <<registry, mgrVars, guiVars, auto, store, prog, form, sync>>

deserialize_update_check_applied ==
    /\ eval.pc = "input"
    /\ eval.fn = "update_check"
    /\ eval' = [eval EXCEPT !.pc = "done", !.result = deserialize_update_check(eval.doc)]
    /\ UNCHANGED <<registry, mgrVars, guiVars, auto, store, prog, form, sync>>

NextDecode ==
    \/ deserialize_version_check_applied
    \/ deserialize_update_check_applied

SpecDecode == InitDecode /\ [][NextDecode]_vars

\* ------------------------------------------------------ claims on the decoding
\* The array is a list of argument strings.
IsArgumentList(items) == \A n \in DOMAIN items : items[n].t = "string"
Arguments(items) == [n \in DOMAIN items |-> items[n].v]

\* The object maps distinct platform keys to argument lists.
IsPlatformMap(entries) ==
    /\ \A n \in DOMAIN entries :
          entries[n][2].kind = "array" /\ IsArgumentList(entries[n][2].items)
    /\ \A m, n \in DOMAIN entries : entries[m][1] = entries[n][1] => m = n

Decoded(field) == eval.pc = "done" /\ eval.fn = field

\* C13: decoding versionCheck maps a flat argument list L to
\* {windows: L, macos: L, linux: L} and a platform-keyed map to exactly that
\* map: the same keys with the same argument lists.
C13_VersionCheckNormalized ==
    Decoded("version_check") =>
        /\ eval.doc.kind = "array" /\ IsArgumentList(eval.doc.items) =>
              /\ eval.result.ok
              /\ eval.result.value = [p \in Platforms |-> Arguments(eval.doc.items)]
        /\ eval.doc.kind = "object" /\ IsPlatformMap(eval.doc.entries) =>
              /\ eval.result.ok
              /\ DOMAIN eval.result.value = {eval.doc.entries[n][1] : n \in DOMAIN eval.doc.entries}
              /\ \A n \in DOMAIN eval.doc.entries :
                    eval.result.value[eval.doc.entries[n][1]]
                        = Arguments(eval.doc.entries[n][2].items)

\* A legacy list of two arguments has been decoded.
C13_Witness ==
    /\ Decoded("version_check")
    /\ eval.doc.kind = "array" /\ Len(eval.doc.items) = 2 /\ IsArgumentList(eval.doc.items)
    /\ eval.result.ok /\ DOMAIN eval.result.value = Platforms

\* C14: decoding updateCheck never fails on an argument list; a null or absent
\* updateCheck decodes to None, not to an error; a non-empty legacy list is
\* broadcast to the three platform keys.
C14_UpdateCheckTotal ==
    Decoded("update_check") =>
        /\ eval.doc.kind = "array" /\ IsArgumentList(eval.doc.items) => eval.result.ok
        /\ eval.doc.kind \in {"absent", "null"} => eval.result = DecodeOk(None)
        /\ eval.doc.kind = "array" /\ IsArgumentList(eval.doc.items) /\ eval.doc.items # <<>> =>
              eval.result = DecodeOk(Some([p \in Platforms |-> Arguments(eval.doc.items)]))

\* The empty legacy list has been decoded, to no self-update support.
C14_Witness ==
    /\ Decoded("update_check")
    /\ eval.doc.kind = "array" /\ eval.doc.items = <<>>
    /\ eval.result = DecodeOk(None)

\* ------------------------------------------------------------- Cache Store
\* Time is in seconds; every sum of a timestamp and a TTL below stays far
\* inside the range of u64.
StatusTtl == 86400
HelpTtl == 604800
\* TTLs CacheEntry::new is called with.
Ttls == {1, StatusTtl, HelpTtl}
\* Lengths of time that pass between two operations.
Steps == {1, StatusTtl, HelpTtl}
MaxTicks == 2
MaxOps == 3

StoreIds == {"npmtool", "scripttool"}
StoreStatuses == {Installed(V1), NotInstalled}
StoreHelps == {<<"usage">>}

\* CacheEntry::new with SystemTime::now() = now
CacheEntry_new(data, ttl_seconds, now) ==
    [data |-> data, timestamp |-> now, ttl_seconds |-> ttl_seconds]

\* CacheEntry::is_expired (C15 mutant): expired from the last second of the TTL on.
is_expired_inclusive(entry, now) == now >= entry.timestamp + entry.ttl_seconds

\* CacheEntry::is_expired with SystemTime::now() = now
is_expired(entry, now) == now > entry.timestamp + entry.ttl_seconds

\* ToolCache::default
EmptyCache == [status_cache |-> [t \in StoreIds |-> None], help_cache |-> [t \in StoreIds |-> None]]

\* `.get(tool_id).and_then(|entry| if entry.is_expired() { None } else { Some(entry.data.clone()) })`
Lookup(map, tool_id, now) ==
    IF IsSome(map[tool_id]) /\ ~is_expired(Unwrap(map[tool_id]), now)
    THEN Some(Unwrap(map[tool_id]).data)
    ELSE None

\* The cache after a read (C16 mutant): the entry read is dropped.
after_read_healed(cache, tool_id) ==
    [cache EXCEPT !.status_cache[tool_id] = None, !.help_cache[tool_id] = None]

\* The cache after a read: get_tool_status and get_tool_help take `&self`.
after_read(cache, tool_id) == cache

\* `retain(|_, entry| !entry.is_expired())` (C17 mutant): nothing is dropped.
retain_all(map, now) == map

\* `retain(|_, entry| !entry.is_expired())`
retain_fresh(map, now) ==
    [t \in DOMAIN map |-> IF IsSome(map[t]) /\ is_expired(Unwrap(map[t]), now) THEN None ELSE map[t]]

\* CacheManager::clean_expired
clean_expired(cache, now) ==
    [status_cache |-> retain_fresh(cache.status_cache, now),
     help_cache |-> retain_fresh(cache.help_cache, now)]

\* CacheManager::invalidate_tool (C18 mutant): the help text is kept.
invalidate_status_only(cache, tool_id) == [cache EXCEPT !.status_cache[tool_id] = None]

\* CacheManager::invalidate_tool on the two maps
invalidate_both(cache, tool_id) ==
    [cache EXCEPT !.status_cache[tool_id] = None, !.help_cache[tool_id] = None]

\* `insert(tool_id, entry)` (C19 mutant): an entry already there is kept.
insert_if_absent(map, tool_id, entry) ==
    IF IsSome(map[tool_id]) THEN map ELSE [map EXCEPT ![tool_id] = Some(entry)]

\* `insert(tool_id.to_string(), entry)`
insert_entry(map, tool_id, entry) == [map EXCEPT ![tool_id] = Some(entry)]

\* What the history keeps of an operation: its name, its argument, the time,
\* the cache before it and what it returned.
Op(name, tool_id, result) ==
    [op |-> name, id |-> tool_id, at |-> store.now, before |-> store.cache, result |-> result]

\* The values set and not removed since (history).
NoneWritten == [status |-> [t \in StoreIds |-> None], help |-> [t \in StoreIds |-> None]]
Written(value) == Some([value |-> value, at |-> store.now])

\* CacheManager::new: an empty cache; the cache file may not exist yet.
InitStore ==
    /\ ManagerOff
    /\ AutoIdle
    /\ ProgIdle
    /\ FormIdle
    /\ SyncIdle
    /\ EvalIdle
    /\ store = [pc |-> "on", now |-> 0, cache |-> EmptyCache, file |-> None, probe |-> None,
                ticks |-> 0, ops |-> 0, written |-> NoneWritten,
                last |-> [op |-> "new", id |-> "npmtool", at |-> 0, before |-> EmptyCache,
                          result |-> None]]

storeRest == <<registry, mgrVars, guiVars, auto, eval, prog, form, sync>>

\* Time passes.
Tick ==
    /\ store.pc = "on"
    /\ store.ticks < MaxTicks
    /\ \E d \in Steps : store' = [store EXCEPT !.now = @ + d, !.ticks = @ + 1]
    /\ UNCHANGED storeRest

Counted(s) == [s EXCEPT !.ops = @ + 1]
CanChange == store.pc = "on" /\ store.ops < MaxOps


\* CacheEntry::new on its own, with any of the TTLs.
CacheEntry_new_called ==
    /\ CanChange
    /\ \E data \in StoreStatuses, ttl \in Ttls :
         store' = Counted([store EXCEPT !.probe = Some(CacheEntry_new(data, ttl, store.now)),
                                        !.last = Op("entry_new", "npmtool", None)])
    /\ UNCHANGED storeRest

\* CacheEntry::is_expired read off that entry.
is_expired_called ==
    /\ store.pc = "on"
    /\ IsSome(store.probe)
    /\ store' = [store EXCEPT !.last = Op("is_expired", "npmtool",
                                          Some(is_expired(Unwrap(store.probe), store.now)))]
    /\ UNCHANGED storeRest

\* CacheManager::set_tool_status: a new entry with the TTL of a day.
CacheManager_set_tool_status ==
    /\ CanChange
    /\ \E tool_id \in StoreIds, status \in StoreStatuses :
         store' = Counted([store EXCEPT
                     !.cache.status_cache =
                         insert_entry(@, tool_id, CacheEntry_new(status, StatusTtl, store.now)),
                     !.written.status[tool_id] = Written(status),
                     !.last = Op("set_status", tool_id, Some(status))])
    /\ UNCHANGED storeRest

\* CacheManager::set_tool_help: a new entry with the TTL of seven days.
CacheManager_set_tool_help ==
    /\ CanChange
    /\ \E tool_id \in StoreIds, help \in StoreHelps :
         store' = Counted([store EXCEPT
                     !.cache.help_cache =
                         insert_entry(@, tool_id, CacheEntry_new(help, HelpTtl, store.now)),
                     !.written.help[tool_id] = Written(help),
                     !.last = Op("set_help", tool_id, Some(help))])
    /\ UNCHANGED storeRest

\* CacheManager::get_tool_status
CacheManager_get_tool_status ==
    /\ store.pc = "on"
    /\ \E tool_id \in StoreIds :
         store' = [store EXCEPT
                     !.cache = after_read(@, tool_id),
                     !.last = Op("get_status", tool_id,
                                 Lookup(store.cache.status_cache, tool_id, store.now))]
    /\ UNCHANGED storeRest

\* CacheManager::get_tool_help
CacheManager_get_tool_help ==
    /\ store.pc = "on"
    /\ \E tool_id \in StoreIds :
         store' = [store EXCEPT
                     !.cache = after_read(@, tool_id),
                     !.last = Op("get_help", tool_id,
                                 Lookup(store.cache.help_cache, tool_id, store.now))]
    /\ UNCHANGED storeRest

\* CacheManager::invalidate_tool
CacheManager_invalidate_tool ==
    /\ CanChange
    /\ \E tool_id \in StoreIds :
         store' = Counted([store EXCEPT
                     !.cache = invalidate_both(@, tool_id),
                     !.written.status[tool_id] = None,
                     !.written.help[tool_id] = None,
                     !.last = Op("invalidate", tool_id, None)])
    /\ UNCHANGED storeRest

\* CacheManager::load: when the file exists the cache becomes its content
\* without the entries expired by now; when it does not, nothing is done.
CacheManager_load ==
    /\ CanChange
    /\ store' = Counted([store EXCEPT
                  !.cache = IF IsSome(store.file)
                            THEN clean_expired(Unwrap(store.file), store.now) ELSE @,
                  !.written = IF IsSome(store.file) THEN NoneWritten ELSE @,
                  !.last = Op("load", "npmtool", None)])
    /\ UNCHANGED storeRest

\* CacheManager::save: the whole cache, expired entries included, is written.
CacheManager_save ==
    /\ CanChange
    /\ store' = Counted([store EXCEPT !.file = Some(store.cache),
                                      !.last = Op("save", "npmtool", None)])
    /\ UNCHANGED storeRest

\* CacheManager::clear_all
CacheManager_clear_all ==
    /\ CanChange
    /\ store' = Counted([store EXCEPT !.cache = EmptyCache, !.written = NoneWritten,
                                      !.last = Op("clear_all", "npmtool", None)])
    /\ UNCHANGED storeRest

NextStore ==
    \/ Tick
    \/ CacheEntry_new_called
    \/ is_expired_called
    \/ CacheManager_set_tool_status
    \/ CacheManager_set_tool_help
    \/ CacheManager_get_tool_status
    \/ CacheManager_get_tool_help
    \/ CacheManager_invalidate_tool
    \/ CacheManager_load
    \/ CacheManager_save
    \/ CacheManager_clear_all

SpecStore == InitStore /\ [][NextStore]_vars

\* ------------------------------------------------- claims on the Cache Store
Last(name) == store.pc = "on" /\ store.last.op = name

\* The entry is past its TTL at time t.
PastTtl(entry, t) == t > entry.timestamp + entry.ttl_seconds

\* C15: an entry created at T with TTL s reads as not expired at every time t
\* with T <= t <= T + s and as expired at every t > T + s; with s = 1 it is
\* expired at T + 2 and not at T + 0.
C15_ExpiryByTtl ==
    Last("is_expired") =>
        /\ Unwrap(store.probe).timestamp <= store.last.at
        /\ store.last.at <= Unwrap(store.probe).timestamp + Unwrap(store.probe).ttl_seconds
              => store.last.result = Some(FALSE)
        /\ store.last.at > Unwrap(store.probe).timestamp + Unwrap(store.probe).ttl_seconds
              => store.last.result = Some(TRUE)
        /\ Unwrap(store.probe).ttl_seconds = 1 =>
              /\ store.last.at = Unwrap(store.probe).timestamp + 2 => store.last.result = Some(TRUE)
              /\ store.last.at = Unwrap(store.probe).timestamp => store.last.result = Some(FALSE)

\* An entry with a TTL of one second is read two seconds after its creation.
C15_Witness ==
    /\ Last("is_expired")
    /\ Unwrap(store.probe).ttl_seconds = 1
    /\ store.last.at = Unwrap(store.probe).timestamp + 2
    /\ store.last.result = Some(TRUE)

\* The map the read went to, as it was before the read.
ReadMap ==
    IF store.last.op = "get_status" THEN store.last.before.status_cache
    ELSE store.last.before.help_cache

\* C16: get(id) returns None for an expired entry and leaves the cache as it
\* was: the expired entry is neither removed nor refreshed and no other entry
\* is modified by a read.
C16_ReadLeavesCache ==
    Last("get_status") \/ Last("get_help") =>
        /\ IsSome(ReadMap[store.last.id]) /\ PastTtl(Unwrap(ReadMap[store.last.id]), store.last.at)
              => store.last.result = None
        /\ store.cache = store.last.before

\* A status read has met an expired entry, which is still in the cache.
C16_Witness ==
    /\ Last("get_status")
    /\ IsSome(store.last.before.status_cache[store.last.id])
    /\ PastTtl(Unwrap(store.last.before.status_cache[store.last.id]), store.last.at)
    /\ store.last.result = None
    /\ IsSome(store.cache.status_cache[store.last.id])

\* No entry of the map is past its TTL at time t.
NoneExpired(map, t) == \A id \in StoreIds : IsSome(map[id]) => ~PastTtl(Unwrap(map[id]), t)

\* The map holds exactly the entries of doc that are not past their TTL at t.
FreshOf(map, doc, t) ==
    \A id \in StoreIds :
        IF IsSome(doc[id]) /\ ~PastTtl(Unwrap(doc[id]), t) THEN map[id] = doc[id]
        ELSE map[id] = None

\* C17 (as claimed): right after load() the status and help maps hold no entry
\* expired at load time, and every non-expired entry of the persisted document
\* is there unchanged.
C17_Original ==
    Last("load") =>
        /\ NoneExpired(store.cache.status_cache, store.last.at)
        /\ NoneExpired(store.cache.help_cache, store.last.at)
        /\ IsSome(store.file) =>
              /\ FreshOf(store.cache.status_cache, Unwrap(store.file).status_cache, store.last.at)
              /\ FreshOf(store.cache.help_cache, Unwrap(store.file).help_cache, store.last.at)

\* C17 (amended): right after a load() that found the cache file, the maps
\* hold exactly the entries of the document not expired at load time,
\* unchanged; a load() that finds no file leaves the maps as they were.
C17_Amended ==
    Last("load") =>
        IF IsSome(store.file)
        THEN /\ NoneExpired(store.cache.status_cache, store.last.at)
             /\ NoneExpired(store.cache.help_cache, store.last.at)
             /\ FreshOf(store.cache.status_cache, Unwrap(store.file).status_cache, store.last.at)
             /\ FreshOf(store.cache.help_cache, Unwrap(store.file).help_cache, store.last.at)
        ELSE store.cache = store.last.before

\* A load has dropped an expired status entry of the file.
C17_Witness ==
    /\ Last("load")
    /\ IsSome(store.file)
    /\ \E id \in StoreIds :
          /\ IsSome(Unwrap(store.file).status_cache[id])
          /\ PastTtl(Unwrap(Unwrap(store.file).status_cache[id]), store.last.at)
          /\ store.cache.status_cache[id] = None

\* C18: invalidate(id) removes the status entry and the help entry of id and
\* leaves the entries of every other id as they were; with no entry for id
\* nothing changes.
C18_InvalidateOnlyId ==
    Last("invalidate") =>
        /\ store.cache.status_cache[store.last.id] = None
        /\ store.cache.help_cache[store.last.id] = None
        /\ \A other \in StoreIds \ {store.last.id} :
              /\ store.cache.status_cache[other] = store.last.before.status_cache[other]
              /\ store.cache.help_cache[other] = store.last.before.help_cache[other]
        /\ (store.last.before.status_cache[store.last.id] = None
              /\ store.last.before.help_cache[store.last.id] = None)
              => store.cache = store.last.before

\* An id with both a status and a help entry has been invalidated.
C18_Witness ==
    /\ Last("invalidate")
    /\ IsSome(store.last.before.status_cache[store.last.id])
    /\ IsSome(store.last.before.help_cache[store.last.id])
    /\ store.cache.help_cache[store.last.id] = None

\* C19: set(id, value) overwrites the entry of id with one stamped now and
\* carrying the TTL of its kind (a day for status, seven days for help), so a
\* get(id) within that TTL after the set returns the value set, whatever entry
\* the set replaced.
C19_SetThenGet ==
    /\ Last("set_status") =>
          store.cache.status_cache[store.last.id]
              = Some([data |-> Unwrap(store.last.result), timestamp |-> store.last.at,
                      ttl_seconds |-> 86400])
    /\ Last("set_help") =>
          store.cache.help_cache[store.last.id]
              = Some([data |-> Unwrap(store.last.result), timestamp |-> store.last.at,
                      ttl_seconds |-> 604800])
    /\ Last("get_status") /\ IsSome(store.written.status[store.last.id])
          /\ store.last.at <= Unwrap(store.written.status[store.last.id]).at + 86400
          => store.last.result = Some(Unwrap(store.written.status[store.last.id]).value)
    /\ Last("get_help") /\ IsSome(store.written.help[store.last.id])
          /\ store.last.at <= Unwrap(store.written.help[store.last.id]).at + 604800
          => store.last.result = Some(Unwrap(store.written.help[store.last.id]).value)

\* A status set over an expired entry of another value is read back on the
\* last second of its TTL.
C19_Witness ==
    /\ Last("get_status")
    /\ IsSome(store.written.status[store.last.id])
    /\ Unwrap(store.written.status[store.last.id]).at > 86400
    /\ store.last.at = Unwrap(store.written.status[store.last.id]).at + 86400
    /\ store.last.result = Some(Unwrap(store.written.status[store.last.id]).value)

\* ------------------------------------------------------------ claim on update
\* The self-update argv of the tool of call k for this platform, if any.
SelfUpdateArgv(k) ==
    IF IsSome(Cfg(call[k].id).update_check)
    THEN Get(Unwrap(Cfg(call[k].id).update_check), OS)
    ELSE None

\* install_tool synthesizes a command from the install method of the tool of
\* call k (no explicit command, a method construct_install_command knows).
InstallSynthesizes(k) ==
    LET m == Cfg(call[k].id).install[OS]
    IN  ~IsSome(m.command) /\ construct_install_command(m).err = "none"

Updating(k) == call[k].op = "update" /\ call[k].pc \notin {"idle", "reg"}

\* C20: update(id) on a tool not detected installed returns an error without
\* running a command; on an installed tool the self-update command runs first
\* when an updateCheck argv exists for the platform, and the package-manager
\* update command runs only after self-update was unavailable or failed; that
\* fallback is synthesized for every install method install has a command for.
C20_Claim ==
    \A k \in Calls :
        Updating(k) /\ Known(k) =>
            /\ Returned(k) /\ ~call[k].seen => call[k].res # "Ok" /\ call[k].runs = 0
            /\ call[k].pc = "selfupd" => IsSome(SelfUpdateArgv(k)) /\ call[k].runs = 0
            /\ call[k].pc = "pm" =>
                  \/ ~IsSome(SelfUpdateArgv(k)) /\ call[k].runs = 0
                  \/ IsSome(SelfUpdateArgv(k)) /\ call[k].runs = 1 /\ call[k].x2 # "zero"
            /\ Returned(k) /\ call[k].seen /\ IsSome(SelfUpdateArgv(k)) => call[k].runs >= 1
            /\ Returned(k) /\ call[k].seen /\ InstallSynthesizes(k)
                  => call[k].res \notin {"NotSupported", "ConfigError"}

\* --------------------------------------------------------- claim on uninstall
\* Call k is an uninstall that found its tool and a method for the platform.
Uninstalling(k) ==
    /\ call[k].op = "uninstall" /\ Known(k)
    /\ call[k].pc \notin {"idle", "reg"}

\* The dedicated uninstall method of the tool of call k for this platform.
DedicatedUninstall(k) ==
    IF IsSome(Cfg(call[k].id).uninstall)
    THEN Get(Unwrap(Cfg(call[k].id).uninstall), OS)
    ELSE None

\* The uninstall command of method m: its explicit command, else the one
\* synthesized from method and package name.
UninstallArgv(m) ==
    IF IsSome(m.command) THEN Unwrap(m.command) ELSE construct_uninstall_command(m).argv

Executed(k) == call[k].op = "execute" /\ Known(k) /\ Returned(k)

\* C22: execute(id, args) on a tool not detected installed returns an error
\* and does not run the tool with the arguments; on a detected tool the
\* Output of the run (stdout, stderr, exit code) is returned unchanged, and a
\* non-zero exit code comes back as a result, not as an error.
C22_ExecuteVerbatim ==
    \A k \in Calls :
        Executed(k) =>
            /\ ~call[k].seen =>
                  call[k].res = "NotFound" /\ call[k].cmd = <<>> /\ call[k].proc = None
            /\ call[k].seen /\ IsSome(call[k].proc) =>
                  call[k].res = "Ok" /\ call[k].ret = call[k].proc

\* A tool run that exited non-zero with output on both streams was returned.
C22_Witness ==
    \E k \in Calls :
        /\ Executed(k) /\ call[k].seen /\ call[k].res = "Ok"
        /\ call[k].ret = Some([code |-> 1, stdout |-> <<"out">>, stderr |-> <<"err">>])

\* ----------------------------------------------------------- claim on getHelp
Helping(k) == call[k].op = "help" /\ Known(k) /\ call[k].pc \notin {"idle", "reg"}

\* Invocation n of call k exited successfully with a non-empty stdout.
NonEmptySuccess(t) ==
    IsSome(t.out) /\ Unwrap(t.out).code = 0 /\ Unwrap(t.out).stdout # <<>>

\* Invocation n of call k exited successfully with a stdout that holds more
\* than white space.
NonBlankSuccess(t) ==
    IsSome(t.out) /\ Unwrap(t.out).code = 0 /\ trim(Unwrap(t.out).stdout) # <<>>

\* The invocations of call k ran in the order --help, help, -h.
InHelpOrder(k) ==
    /\ Len(call[k].tries) <= 3
    /\ \A n \in DOMAIN call[k].tries :
          call[k].tries[n].args = << <<"--help">>, <<"help">>, <<"-h">> >>[n]

\* C23 (as claimed): getHelp runs --help, help, -h in that order, stops at the
\* first invocation that exits successfully with a non-empty stdout and
\* returns that stdout, and returns ExecutionFailed exactly when none of the
\* three does.
C23_Original ==
    \A k \in Calls :
        Helping(k) =>
            /\ InHelpOrder(k)
            /\ \A n \in DOMAIN call[k].tries :
                  NonEmptySuccess(call[k].tries[n]) =>
                      /\ n = Len(call[k].tries)
                      /\ Returned(k) /\ call[k].res = "Ok"
                      /\ call[k].out = Unwrap(call[k].tries[n].out).stdout
            /\ Returned(k) =>
                  (call[k].res = "ExecutionFailed" <=>
                      /\ Len(call[k].tries) = 3
                      /\ \A n \in 1..3 : ~NonEmptySuccess(call[k].tries[n]))

\* C23 (amended): getHelp runs --help, help, -h in that order, stops at the
\* first invocation that exits successfully with a stdout that is not blank
\* (not empty once white space is trimmed) and returns that stdout decoded
\* lossily as UTF-8, and returns ExecutionFailed exactly when none of the
\* three does.
C23_Amended ==
    \A k \in Calls :
        Helping(k) =>
            /\ InHelpOrder(k)
            /\ \A n \in DOMAIN call[k].tries :
                  NonBlankSuccess(call[k].tries[n]) =>
                      /\ n = Len(call[k].tries)
                      /\ Returned(k) /\ call[k].res = "Ok"
                      /\ call[k].out = from_utf8_lossy(Unwrap(call[k].tries[n].out).stdout)
            /\ Returned(k) =>
                  /\ call[k].res \in {"Ok", "ExecutionFailed"}
                  /\ (call[k].res = "ExecutionFailed" <=>
                        /\ Len(call[k].tries) = 3
                        /\ \A n \in 1..3 : ~NonBlankSuccess(call[k].tries[n]))

\* --help printed only white space, help exited non-zero, -h printed the text.
C23_Witness ==
    \E k \in Calls :
        /\ Helping(k) /\ Returned(k) /\ call[k].res = "Ok"
        /\ Len(call[k].tries) = 3
        /\ NonEmptySuccess(call[k].tries[1]) /\ ~NonBlankSuccess(call[k].tries[1])
        /\ Unwrap(call[k].tries[2].out).code = 1
        /\ call[k].out = <<"h", "U+FFFD", "\n">>

\* ----------------------------------------------- claim on command synthesis
\* The methods construct_install_command has an arm for.
SynthesizedMethods ==
    {"npm", "brew", "pip", "apt", "yum", "dnf", "pacman", "winget", "choco", "scoop",
     "cargo", "go"}

\* Call k is an install that went past the probe without detecting the tool.
InstallSelecting(k) ==
    /\ call[k].op = "install" /\ Known(k)
    /\ call[k].pc \notin {"idle", "reg", "probe"}
    /\ ~call[k].seen

\* What install(id) of call k has done, by the install method m of its tool.
InstallSelected(k, m) ==
    /\ ~IsSome(m.command) /\ m.method \notin SynthesizedMethods =>
          Returned(k) /\ call[k].res = "NotSupported" /\ call[k].runs = 0
    /\ ~IsSome(m.command) /\ m.method \in SynthesizedMethods /\ ~IsSome(m.package_name) =>
          Returned(k) /\ call[k].res = "ConfigError" /\ call[k].runs = 0
    /\ IsSome(m.command) /\ call[k].runs > 0 => call[k].cmd = Unwrap(m.command)

\* Call k returns NotSupported or ConfigError from install in this step.
InstallRefused(k) ==
    /\ call[k].op = "install" /\ call[k].pc # "done"
    /\ call'[k].pc = "done" /\ call'[k].res \in {"NotSupported", "ConfigError"}

\* Call k is an install that went past the probe.
InstallProbed(k) ==
    /\ call[k].op = "install" /\ Known(k)
    /\ call[k].pc \notin {"idle", "reg", "probe"}

\* C24 (as claimed): install with an InstallMethod without explicit command
\* fails with NotSupported for an unknown method and with a configuration
\* error for a known method without package name, no install command having
\* run and the status cache left as it was; an explicit command is executed
\* verbatim in preference to a synthesized one.
C24_Original ==
    /\ [](\A k \in Calls :
            InstallProbed(k) =>
                InstallSelected(k, Cfg(call[k].id).install[OS]))
    /\ [][\A k \in Calls :
            InstallRefused(k) => status_cache' = status_cache /\ call'[k].runs = 0]_vars

\* C24 (amended): on a tool not detected installed, install with an
\* InstallMethod without explicit command fails with NotSupported for an
\* unknown method and with ConfigError for a known method without package
\* name; the step that returns either error runs no install command and
\* leaves the status cache as it was.  An explicit command is the one run,
\* whatever the method and package name would synthesize.  On a tool detected
\* installed, install returns success whatever the method.
C24_Amended ==
    /\ [](\A k \in Calls :
            InstallSelecting(k) =>
                /\ InstallSelected(k, Cfg(call[k].id).install[OS])
                /\ IsSome(Cfg(call[k].id).install[OS].command) =>
                      call[k].cmd = Unwrap(Cfg(call[k].id).install[OS].command))
    /\ [][\A k \in Calls :
            InstallRefused(k) =>
                /\ status_cache' = status_cache
                /\ call'[k].runs = 0 /\ call'[k].cmd = <<>>]_vars
    /\ [](\A k \in Calls :
            InstallProbed(k) /\ call[k].seen =>
                Returned(k) /\ call[k].res = "Ok" /\ call[k].runs = 0)

\* An install refused for its missing package name, the status computed by
\* an earlier check still cached.
C24_Witness ==
    \E k \in Calls :
        /\ InstallSelecting(k) /\ Returned(k)
        /\ call[k].id = "nopkgtool" /\ call[k].res = "ConfigError"
        /\ status_cache["nopkgtool"] = Some(NotInstalled)

\* ------------------------------------------------- claim on failed commands
Changing(k) == call[k].op \in {"install", "uninstall", "update"} /\ Known(k)

\* Command n of call k could not be spawned or exited non-zero.
FailedRun(t) == ~IsSome(t.out) \/ Unwrap(t.out).code # 0

\* What an error that carries the captured output of run t holds.
Carried(t) ==
    Some([code |-> Unwrap(t.out).code, stdout |-> from_utf8_lossy(Unwrap(t.out).stdout),
          stderr |-> from_utf8_lossy(Unwrap(t.out).stderr)])

\* Call k has returned the failure of its run t to the caller.
Propagated(k, t) ==
    /\ Returned(k) /\ call[k].res = "ExecutionFailed"
    /\ IsSome(t.out) => call[k].ret = Carried(t)

\* The self-update command of update(id): the first command of a tool that
\* has an updateCheck argv for the platform.
IsSelfUpdate(k, n) == call[k].op = "update" /\ n = 1 /\ IsSome(SelfUpdateArgv(k))

\* A step of call k changes the status cache only when k returns success after
\* a last command that succeeded.
InvalidatesOnSuccessOnly(k) ==
    call'[k] # call[k] /\ status_cache' # status_cache =>
        /\ call'[k].res = "Ok"
        /\ ~FailedRun(call'[k].tries[Len(call'[k].tries)])

\* C25 (as claimed): a failed install, uninstall or update command (spawn
\* failure or non-zero exit) is always propagated to the caller as an error
\* carrying the captured stdout and stderr, never reported as success, and the
\* status cache entry of the tool is not invalidated on that failure.
C25_Original ==
    /\ [](\A k \in Calls : Changing(k) /\ call[k].pc \notin SubprocessPcs =>
            \A n \in DOMAIN call[k].tries :
                FailedRun(call[k].tries[n]) => Propagated(k, call[k].tries[n]))
    /\ [][\A k \in Calls : Changing(k) /\ call'[k].tries # <<>> =>
            (call'[k] # call[k] /\ status_cache' # status_cache =>
                \A n \in DOMAIN call'[k].tries : ~FailedRun(call'[k].tries[n]))]_vars

\* C25 (amended): a failed install, uninstall or package-manager update
\* command (spawn failure or non-zero exit) is always propagated to the
\* caller as ExecutionFailed, carrying exit code, stdout and stderr when the
\* command ran, and the call leaves the status cache as it was; a failed
\* self-update command is not propagated: update goes on to the
\* package-manager command and returns what that one gives.
C25_Amended ==
    /\ [](\A k \in Calls : Changing(k) /\ call[k].pc \notin SubprocessPcs =>
            \A n \in DOMAIN call[k].tries :
                FailedRun(call[k].tries[n]) =>
                    IF IsSelfUpdate(k, n)
                    THEN \/ Len(call[k].tries) = 2
                         \/ Returned(k) /\ call[k].res \in {"NotSupported", "ConfigError"}
                    ELSE n = Len(call[k].tries) /\ Propagated(k, call[k].tries[n]))
    /\ [][\A k \in Calls : Changing(k) /\ call'[k].tries # <<>> => InvalidatesOnSuccessOnly(k)]_vars

\* An install command that exited non-zero came back as an error with its
\* output, the status computed before still cached.
C25_Witness ==
    \E k \in Calls :
        /\ Changing(k) /\ call[k].op = "install" /\ Returned(k)
        /\ call[k].res = "ExecutionFailed"
        /\ call[k].ret = Some([code |-> 1, stdout |-> <<>>, stderr |-> <<"U+FFFD">>])
        /\ status_cache[call[k].id] = Some(NotInstalled)

\* ------------------------------------------------ claim on the status cache
\* Call k computes a status: a status check, or a lookup that found none cached.
Computes(k) == call[k].op \in {"check", "lookup"} /\ call[k].pc = "cache"

\* In this step call k returns the status it computed.
ReturnsComputed(k) == Computes(k) /\ call'[k].pc = "done"

\* In this step call k, a status lookup, reads the cache while it holds a
\* status for its id.
LooksUpCached(k) ==
    /\ call[k].op = "lookup" /\ call[k].pc = "peek" /\ call'[k] # call[k]
    /\ IsSome(status_cache[call[k].id])

\* In this step call k, a successful install, uninstall or update, removes
\* the entry of id.
Removes(k, id) ==
    /\ call[k].op \in {"install", "uninstall", "update"} /\ call[k].id = id
    /\ call[k].pc = "cache" /\ call'[k].pc = "done" /\ call'[k].res = "Ok"

\* C26: every status computed by a status check is written to the status
\* cache under its id; a status lookup on an id with a cached status returns
\* that status without spawning a subprocess; an entry leaves the cache only
\* when a successful install, uninstall or update removes it, never with time.
C26_StatusCacheServesLookups ==
    [][/\ \A k \in Calls :
            ReturnsComputed(k) => status_cache'[call[k].id] = Some(call'[k].st)
       /\ \A k \in Calls :
            LooksUpCached(k) =>
                /\ call'[k].pc = "done" /\ call'[k].res = "Ok"
                /\ call'[k].st = Unwrap(status_cache[call[k].id])
                /\ call'[k].runs = 0 /\ call'[k].x1 = "none" /\ call'[k].x2 = "none"
                /\ status_cache' = status_cache
       /\ \A id \in ToolIds :
            IsSome(status_cache[id]) /\ ~IsSome(status_cache'[id]) =>
                \E k \in Calls : Removes(k, id)]_vars

\* A lookup answered from the cache with the status an earlier check computed.
C26_Witness ==
    \E j, k \in Calls :
        /\ call[j].op = "check" /\ Returned(j) /\ j \in call[k].before
        /\ call[k].op = "lookup" /\ Returned(k) /\ call[k].id = call[j].id
        /\ call[k].st = Installed(V1) /\ call[k].x1 = "none"
        /\ status_cache[call[k].id] = Some(Installed(V1))

\* ------------------------------------------------------------ progress lists
\* Progress events sent over one run of the lists.
MaxEvents == 3

ProgressTools == {"npmtool", "scripttool"}
\* ToolConfig.name of a listed tool.
DisplayName(id) == IF id = "npmtool" THEN "Npm Tool" ELSE "Script Tool"

StatusEvent(id, status) == [tool_id |-> id, tool_name |-> id, status |-> status]
InstallEvent(id, op, status) ==
    [tool_id |-> id, tool_name |-> id, operation |-> op, status |-> status]

\* What the tasks send: status checks send InProgress, Completed, Failed;
\* install and uninstall tasks send the same three.
SentStatuses == {"InProgress", "Completed", "Failed"}
SentOperations == {"Install", "Uninstall"}

\* `tools.iter().find(..).map(|tool| tool.config.name.clone()).unwrap_or_else(|| tool_id)`
named(tools, e) ==
    [e EXCEPT !.tool_name = IF \E i \in DOMAIN tools : tools[i] = e.tool_id
                            THEN DisplayName(e.tool_id) ELSE e.tool_id]

\* (C27 mutant) install progress entries found by tool id alone.
RECURSIVE update_install_progress_by_tool(_, _, _)
update_install_progress_by_tool(list, events, tools) ==
    IF events = <<>> THEN list
    ELSE LET e == named(tools, Head(events))
             hits == {i \in DOMAIN list : list[i].tool_id = e.tool_id}
             next == IF hits = {} THEN Append(list, e)
                     ELSE [list EXCEPT ![CHOOSE i \in hits : \A j \in hits : i <= j] = e]
         IN  update_install_progress_by_tool(next, Tail(events), tools)

\* update_progress, second loop: each received event replaces the first entry
\* with its tool id and its kind of operation, or is pushed when there is none.
RECURSIVE update_install_progress(_, _, _)
update_install_progress(list, events, tools) ==
    IF events = <<>> THEN list
    ELSE LET e == named(tools, Head(events))
             hits == {i \in DOMAIN list :
                        list[i].tool_id = e.tool_id /\ list[i].operation = e.operation}
             next == IF hits = {} THEN Append(list, e)
                     ELSE [list EXCEPT ![CHOOSE i \in hits : \A j \in hits : i <= j] = e]
         IN  update_install_progress(next, Tail(events), tools)

\* update_progress, first loop, with the display name filled in.
update_status_progress(list, events, tools) ==
    update_progress(list, [i \in DOMAIN events |-> named(tools, events[i])])

\* refresh_tools_with_progress: the list is cleared and gets one Pending entry
\* per listed tool.
pending_entries(tools) ==
    [i \in DOMAIN tools |->
        [tool_id |-> tools[i], tool_name |-> DisplayName(tools[i]), status |-> "Pending"]]

\* The application with both lists empty; one or two tools are listed.  The
\* history keeps the events received since each list was last cleared, and
\* all events ever received.
InitProgress ==
    /\ ManagerOff
    /\ AutoIdle
    /\ EvalIdle
    /\ StoreIdle
    /\ FormIdle
    /\ SyncIdle
    /\ \E tools \in {<<"npmtool">>, <<"npmtool", "scripttool">>} :
         prog = [pc |-> "on", tools |-> tools, sent |-> 0,
                 progress_channel |-> <<>>, install_channel |-> <<>>,
                 status_progress |-> <<>>, install_progress |-> <<>>,
                 status_received |-> <<>>, install_received |-> <<>>,
                 ever_received |-> <<>>]

progRest == <<registry, mgrVars, guiVars, auto, eval, store, form, sync>>

\* A status-check task sends an event.
send_status_progress(id, status) ==
    /\ prog.pc = "on"
    /\ prog.sent < MaxEvents
    /\ prog' = [prog EXCEPT !.sent = @ + 1,
                            !.progress_channel = Append(@, StatusEvent(id, status))]
    /\ UNCHANGED progRest

\* An install or uninstall task sends an event.
send_install_progress(id, op, status) ==
    /\ prog.pc = "on"
    /\ prog.sent < MaxEvents
    /\ prog' = [prog EXCEPT !.sent = @ + 1,
                            !.install_channel = Append(@, InstallEvent(id, op, status))]
    /\ UNCHANGED progRest

\* CLIvergeApp::update_progress: both channels are drained into the lists.
update_progress_called ==
    /\ prog.pc = "on"
    /\ prog.progress_channel # <<>> \/ prog.install_channel # <<>>
    /\ prog' = [prog EXCEPT
                  !.status_progress =
                      update_status_progress(@, prog.progress_channel, prog.tools),
                  !.install_progress =
                      update_install_progress(@, prog.install_channel, prog.tools),
                  !.status_received = @ \o prog.progress_channel,
                  !.install_received = @ \o prog.install_channel,
                  !.ever_received = @ \o prog.progress_channel,
                  !.progress_channel = <<>>,
                  !.install_channel = <<>>]
    /\ UNCHANGED progRest

\* refresh_tools_with_progress, as far as the lists go.
refresh_progress ==
    /\ prog.pc = "on"
    /\ prog.status_progress # pending_entries(prog.tools) \/ prog.status_received # <<>>
    /\ prog' = [prog EXCEPT !.status_progress = pending_entries(prog.tools),
                            !.status_received = <<>>]
    /\ UNCHANGED progRest

\* The "Clear All" button of the operations log.
clear_all_progress ==
    /\ prog.pc = "on"
    /\ prog.status_progress # <<>> \/ prog.install_progress # <<>>
    /\ prog' = [prog EXCEPT !.status_progress = <<>>, !.install_progress = <<>>,
                            !.status_received = <<>>, !.install_received = <<>>]
    /\ UNCHANGED progRest

NextProgress ==
    \/ \E id \in ProgressTools, status \in SentStatuses : send_status_progress(id, status)
    \/ \E id \in ProgressTools, op \in SentOperations, status \in SentStatuses :
          send_install_progress(id, op, status)
    \/ update_progress_called
    \/ refresh_progress
    \/ clear_all_progress

SpecProgress == InitProgress /\ [][NextProgress]_vars

\* ------------------------------------------------- claim on the progress lists
StatusKey(e) == e.tool_id
InstallKey(e) == <<e.tool_id, e.operation>>

\* The last event of `received` with key k under `key`, or None.
LatestFor(received, k, key(_)) ==
    LET hits == {n \in DOMAIN received : key(received[n]) = k}
    IN  IF hits = {} THEN None
        ELSE Some(received[CHOOSE n \in hits : \A m \in hits : m <= n])

OnePerStatusKey(list) ==
    \A i, j \in DOMAIN list : list[i].tool_id = list[j].tool_id => i = j
OnePerInstallKey(list) ==
    \A i, j \in DOMAIN list : InstallKey(list[i]) = InstallKey(list[j]) => i = j

\* Entry and event agree on everything but the display name.
IsEvent(entry, e) == [entry EXCEPT !.tool_name = e.tool_name] = e

EmitsCompleted(i) ==
    /\ i \in DOMAIN tasks
    /\ Len(tasks'[i].sent) = Len(tasks[i].sent) + 1
    /\ tasks'[i].sent[Len(tasks'[i].sent)].status = "Completed"

\* C28 (as claimed): when a task emits the Completed event for a tool, the
\* Cache Store already holds the status that task's check computed (the
\* upper bound of what can be in its file).
C28_Claim ==
    [][\A i \in DOMAIN tasks :
          EmitsCompleted(i) => cache_mem[tasks[i].tool] = Some(tasks[i].st)]_vars

\* ------------------------------------------------------------------ shutdown
\* Where JoinHandle::abort cancels a task: at an await it is suspended on
\* (before its first poll, waiting for the registry lock, waiting for the
\* version command).  A task past its last await runs to its end.
Abortable == {"spawned", "lookup", "checking"}

\* `for task in tasks.drain(..) { task.abort(); }`
abort_all(ts) ==
    [i \in DOMAIN ts |->
        IF ts[i].pc \in Abortable THEN [ts[i] EXCEPT !.pc = "aborted"] ELSE ts[i]]

\* Drop for CLIvergeApp: under the Cache Store lock the cache is saved, then
\* every handle of background_tasks is aborted.  The threads the tasks have
\* detached are not among the handles.
drop ==
    /\ ui.pc = "idle"
    /\ cmLock = <<>>
    /\ cache_file' = cache_mem
    /\ tasks' = abort_all(tasks)
    /\ ui' = [ui EXCEPT !.pc = "dropped"]
    /\ UNCHANGED <<registry, status_cache, regLock, tools_cache, cache_mem,
                   config_file, cmLock, savers, progress, status_progress, guiRest>>

NextGuiDrop ==
    \/ NextGui
    \/ drop

SpecGuiDrop == InitGui /\ [][NextGuiDrop]_vars

Dropped == ui.pc = "dropped"

\* C29 (as claimed): on shutdown every task still waiting is aborted, and
\* after the shutdown no result is applied to the tools list, the Cache
\* Store, its file or the progress list.
C29_Claim ==
    /\ [](Dropped => \A i \in DOMAIN tasks : tasks[i].pc \notin Abortable)
    /\ [][Dropped => UNCHANGED <<tools_cache, cache_mem, cache_file, status_progress>>]_vars

\* --------------------------------------------------- registry and tool editor
\* Saves and deletions of one run of the editor.
MaxEdits == 3

\* char::to_lowercase on the letters of the model.
lower_char(c) == IF c = "A" THEN "a" ELSE IF c = "B" THEN "b" ELSE c
to_lowercase(s) == [i \in DOMAIN s |-> lower_char(s[i])]

\* `.to_lowercase().replace(" ", "-").replace("_", "-")
\*  .chars().filter(|c| c.is_alphanumeric() || *c == '-').collect()`
id_from_name(name) ==
    LET dashed == [i \in DOMAIN name |->
                      IF lower_char(name[i]) \in {" ", "_"} THEN "-" ELSE lower_char(name[i])]
    IN  SelectSeq(dashed, LAMBDA c : c \in {"a", "b", "-"})

\* What the user types as a tool name, and as a tool id.
TypedNames == { <<"a", " ", "b">>, <<"A", " ", "b">>, <<"a", "_", "b">>, <<"b">>, <<>> }
TypedIds == { <<"a", "-", "b">>, <<"b">> }

\* `format!("new-tool-{}", timestamp)`
DefaultId == <<"n", "e", "w">>

EditedTool(id, name) == [id |-> id, name |-> name]

\* ConfigManager::add_tool
add_tool(tools, tool) == Append(tools, tool)

\* ConfigManager::update_tool_config: the first tool with the id is replaced.
update_tool_config(tools, id, config) ==
    LET hits == {i \in DOMAIN tools : tools[i].id = id}
    IN  IF hits = {} THEN tools
        ELSE [tools EXCEPT ![CHOOSE i \in hits : \A j \in hits : i <= j] = config]

\* validate_tool_form, as far as name and id go: the name is required, and a
\* new tool's name must differ, lowercased, from every listed name.
validate_tool_form(listed, editing, name) ==
    /\ name # <<>>
    /\ editing = None =>
          ~\E i \in DOMAIN listed : to_lowercase(listed[i].name) = to_lowercase(name)

\* After CLIvergeApp::new with one configured tool; the editor is closed.
InitForm ==
    /\ ManagerOff
    /\ AutoIdle
    /\ EvalIdle
    /\ StoreIdle
    /\ ProgIdle
    /\ SyncIdle
    /\ form = [pc |-> "closed", edits |-> 0,
               registry |-> <<EditedTool(<<"b">>, <<"B">>)>>,
               tools_cache |-> <<EditedTool(<<"b">>, <<"B">>)>>,
               editing_tool_id |-> None, id |-> <<>>, name |-> <<>>]

formRest == <<registry, mgrVars, guiVars, auto, eval, store, prog, sync>>

open_tool_editor_for_new_tool ==
    /\ form.pc = "closed"
    /\ form.edits < MaxEdits
    /\ form' = [form EXCEPT !.pc = "open", !.editing_tool_id = None,
                            !.id = DefaultId, !.name = <<>>]
    /\ UNCHANGED formRest

open_tool_editor_for_existing_tool(n) ==
    /\ form.pc = "closed"
    /\ form.edits < MaxEdits
    /\ n \in DOMAIN form.tools_cache
    /\ \A m \in DOMAIN form.tools_cache : form.tools_cache[m].id = form.tools_cache[n].id => n <= m
    /\ form' = [form EXCEPT !.pc = "open", !.editing_tool_id = Some(form.tools_cache[n].id),
                            !.id = form.tools_cache[n].id, !.name = form.tools_cache[n].name]
    /\ UNCHANGED formRest

\* The name field changes; a new tool's id is regenerated from it.
edit_name(name) ==
    /\ form.pc = "open"
    /\ name # form.name
    /\ form' = [form EXCEPT !.name = name,
                            !.id = IF form.editing_tool_id = None THEN id_from_name(name) ELSE @]
    /\ UNCHANGED formRest

\* The id field changes; it is enabled for new tools only.
edit_id(id) ==
    /\ form.pc = "open"
    /\ form.editing_tool_id = None
    /\ id # form.id
    /\ form' = [form EXCEPT !.id = id]
    /\ UNCHANGED formRest

\* save_tool_from_form: nothing is saved when the form has errors; otherwise
\* the tool replaces the edited one or is added, in the registry and in the list.
save_tool_from_form ==
    /\ form.pc = "open"
    /\ LET config == EditedTool(form.id, form.name)
       IN  IF ~validate_tool_form(form.tools_cache, form.editing_tool_id, form.name)
           THEN form' = [form EXCEPT !.pc = "closed", !.edits = @ + 1]
           ELSE IF IsSome(form.editing_tool_id)
           THEN form' = [form EXCEPT
                           !.pc = "closed", !.edits = @ + 1,
                           !.registry = update_tool_config(@, Unwrap(form.editing_tool_id), config),
                           !.tools_cache = update_tool_config(@, Unwrap(form.editing_tool_id), config)]
           ELSE form' = [form EXCEPT
                           !.pc = "closed", !.edits = @ + 1,
                           !.registry = add_tool(@, config),
                           !.tools_cache = Append(@, config)]
    /\ UNCHANGED formRest

\* delete_tool: the tool leaves the registry and the list.
delete_edited_tool(id) ==
    /\ form.pc = "closed"
    /\ form.edits < MaxEdits
    /\ \E i \in DOMAIN form.tools_cache : form.tools_cache[i].id = id
    /\ form' = [form EXCEPT !.edits = @ + 1,
                            !.registry = remove_tool(@, id),
                            !.tools_cache = SelectSeq(@, LAMBDA t : t.id # id)]
    /\ UNCHANGED formRest

NextForm ==
    \/ open_tool_editor_for_new_tool
    \/ \E n \in 1..MaxEdits + 1 : open_tool_editor_for_existing_tool(n)
    \/ \E name \in TypedNames : edit_name(name)
    \/ \E id \in TypedIds : edit_id(id)
    \/ save_tool_from_form
    \/ \E id \in TypedIds : delete_edited_tool(id)

SpecForm == InitForm /\ [][NextForm]_vars

\* C30 (as claimed): no two tools of the registry have the same id.
C30_Claim ==
    form.pc # "off" =>
        \A i, j \in DOMAIN form.registry :
            form.registry[i].id = form.registry[j].id => i = j

\* ------------------------------------------------------ claim on SelfCheck
\* SelfCheck returned a result computed from the output of an update check
\* that exited zero.
SelfChecked ==
    /\ auto.pc = "done"
    /\ auto.result.ok
    /\ auto.result.check_method = "self-check"
    /\ auto.update_exit = "zero"

SaysUpToDate(output) == Contains(output, Str_up_to_date) \/ Contains(output, Str_already_latest)

\* C31 (as claimed): under SelfCheck, when the output of the update check says
\* the tool is up to date (and the installed version is known), the returned
\* VersionInfo has latest equal to the current installed version and
\* update_available false.
C31_Claim ==
    SelfChecked /\ SaysUpToDate(auto.update_output) /\ IsSome(auto.result.current) =>
        /\ auto.result.latest = auto.result.current
        /\ ~auto.result.update_available

\* --------------------------------------------- overlapping calls on one tool
Installing(k) == call[k].op = "install"

\* What install_tool can return.
InstallResults == {"none", "Ok", "NotFound", "NotSupported", "ConfigError", "ExecutionFailed"}

\* Call k passed the already-installed check and is about to spawn its command.
AboutToInstall(k) == Installing(k) /\ call[k].pc = "run" /\ ~call[k].seen

\* C32: the manager does not serialize operations per id.  An install call
\* that is at its installed check, or has passed it and is about to spawn its
\* command, can always take that step, whatever the other calls on the same
\* tool are doing (no queueing), and no install call returns anything but the
\* results of its own steps (no "already in progress" rejection); so two
\* overlapping installs of a tool that is not installed both pass the check and
\* both run the install command.
C32_NoPerIdSerialization ==
    \A k \in Calls :
        /\ Installing(k) /\ call[k].pc = "probe" => ENABLED Probe(k)
        /\ Installing(k) /\ call[k].pc = "run" => ENABLED Run(k)
        /\ Installing(k) => call[k].res \in InstallResults

\* Two installs of npmtool overlap: both have passed the check with the tool
\* not installed and both are about to spawn `npm install -g npm-pkg`.
C32_Witness ==
    /\ AboutToInstall(1) /\ AboutToInstall(2)
    /\ call[1].id = "npmtool" /\ call[2].id = "npmtool"
    /\ call[1].cmd = call[2].cmd
    /\ call[1].runs = 0 /\ call[2].runs = 0

\* ------------------------------------------------ writes of the Cache Store
\* No thread that persists the cache is waiting for the lock or writing, and
\* no deletion is between its two halves.
PersistenceQuiet ==
    /\ ui.pc # "deleting"
    /\ \A i \in DOMAIN tasks : tasks[i].thread \notin {"wait", "saving"}
    /\ \A d \in DOMAIN savers : savers[d].cache \notin {"wait", "saving"}

\* A step that changes the file writes the whole cache as it is at that step.
WritesSnapshot == cache_file' # cache_file => cache_file' = cache_mem /\ cache_mem' = cache_mem

InitGuiOverlap ==
    /\ registry = <<NpmTool>>
    /\ cache_file = [t \in ToolIds |-> None]
    /\ world = [t \in ToolIds |-> "absent"]
    /\ status_cache = [t \in ToolIds |-> None]
    /\ stamp = [t \in ToolIds |-> 0]
    /\ regLock = 0
    /\ cacheLock = 0
    /\ call = [k \in Calls |-> IdleCall]
    /\ cache_mem = cache_file
    /\ tools_cache = load_tools_with_cache(registry, cache_file)
    /\ config_file = {registry[i].id : i \in DOMAIN registry}
    /\ cmLock = <<>>
    /\ tasks = start_background_status_checking(TRUE, tools_cache, FALSE)
    /\ savers = <<>>
    /\ progress = <<>>
    /\ status_progress = <<>>
    /\ ui = [ctx |-> TRUE, is_refreshing |-> FALSE, pc |-> "idle", work |-> 0]
    /\ AutoIdle
    /\ ProgIdle
    /\ FormIdle
    /\ SyncIdle
    /\ EvalIdle
    /\ StoreIdle

SpecGuiOverlap == InitGuiOverlap /\ [][NextGui]_vars

\* Every task has ended and nothing is left to persist.
AllFinished ==
    /\ PersistenceQuiet
    /\ \A i \in DOMAIN tasks : tasks[i].pc = "done"
    /\ \A d \in DOMAIN savers : savers[d].config = "done"

\* Two checks of tool t have run and returned a status.
Overlapped(t) ==
    \E i, j \in DOMAIN tasks :
        i # j /\ tasks[i].tool = t /\ tasks[j].tool = t /\ tasks[i].res = "Ok" /\ tasks[j].res = "Ok"

\* C34 (as claimed): when checks of a tool have overlapped and every task has
\* finished, the tools list, the manager's status cache, the Cache Store and
\* its file hold the same status for the tool.
C34_Claim ==
    \A t \in ToolIds :
        AllFinished /\ Overlapped(t) /\ IsSome(Listed(tools_cache, t)) =>
            /\ status_cache[t] = Listed(tools_cache, t)
            /\ cache_mem[t] = Listed(tools_cache, t)
            /\ cache_file[t] = Listed(tools_cache, t)

\* ------------------------------------------------------- deletion of a tool
Deleted(t) == \E d \in DOMAIN savers : savers[d].tool = t

\* C35 (as claimed): once delete_tool(t) has run and every task that was in
\* flight has finished, neither the registry, nor the tools list, nor the
\* Cache Store, nor its file has an entry for t.
C35_Claim ==
    \A t \in ToolIds :
        AllFinished /\ Deleted(t) =>
            /\ ~IsSome(get_tool_config(registry, t))
            /\ ~IsSome(Listed(tools_cache, t))
            /\ ~IsSome(cache_mem[t])
            /\ ~IsSome(cache_file[t])

\* ------------------------------------------------------------------- mutexes
\* The std::sync::Mutex objects of CLIvergeApp and ToolManager.
Mutexes ==
    {"progress_receiver", "install_receiver", "progress_sender", "install_sender",
     "config_manager", "tools_cache", "cache_manager", "help_cache", "status_cache",
     "background_tasks"}

\* The UI thread, and the tasks and detached threads that run beside it.
Threads == {"ui", "w1", "w2"}

Lock(m) == <<"lock", m>>
Unlock(m) == <<"unlock", m>>
\* A guard taken and dropped with nothing locked in between.
Alone(m) == <<Lock(m), Unlock(m)>>
\* A guard of outer held while the steps of inner run.
Holding(outer, inner) == <<Lock(outer)>> \o inner \o <<Unlock(outer)>>

\* The lock and unlock steps of each routine, in program order.
\* load_tools_with_cache: get_all_tools_configs, then both guards in one tuple.
Locks_load_tools_with_cache ==
    Alone("config_manager") \o Holding("tools_cache", Alone("cache_manager"))

\* start_background_status_checking, on the UI thread.
Locks_start_background_status_checking ==
    Alone("tools_cache") \o Alone("progress_sender") \o Alone("background_tasks")

\* update_progress: the tools list is read for each received event.
Locks_update_progress ==
    Holding("progress_receiver", Alone("tools_cache"))
        \o Holding("install_receiver", Alone("tools_cache"))

\* get_tool_help, on the UI thread, when the Cache Store has the text.
Locks_get_tool_help ==
    Alone("help_cache") \o Holding("cache_manager", Alone("help_cache"))
        \o Alone("background_tasks")

\* install_tool and uninstall_tool, on the UI thread.
Locks_install_tool ==
    Alone("install_sender") \o Alone("tools_cache") \o Alone("background_tasks")

\* The Clear All Cache button: the cache is saved under its guard.
Locks_clear_all_cache == Alone("cache_manager") \o Alone("help_cache")

\* delete_tool.
Locks_delete_tool ==
    Alone("tools_cache") \o Alone("config_manager") \o Alone("tools_cache")
        \o Alone("help_cache") \o Alone("cache_manager")

\* save_tool_from_form: the tools list is updated under the registry's guard.
Locks_save_tool_from_form ==
    Alone("tools_cache") \o Holding("config_manager", Alone("tools_cache"))

\* Drop for CLIvergeApp.
Locks_drop == Alone("cache_manager") \o Alone("background_tasks")

\* The task of a status check: check_tool_status, then the tools list.
Locks_status_task ==
    Alone("config_manager") \o Alone("status_cache") \o Alone("tools_cache")

\* The task of an install: install_tool, check_tool_status, then the tools list.
Locks_install_task ==
    Alone("config_manager") \o Alone("status_cache")
        \o Alone("config_manager") \o Alone("status_cache") \o Alone("tools_cache")

\* The task of a help fetch: get_tool_help of the manager, then the help cache.
Locks_help_task == Alone("config_manager") \o Alone("help_cache")

\* (C36 mutant) a persistence thread that also updates the tools list while
\* it holds the Cache Store.
Locks_persistence_thread_listing == Holding("cache_manager", Alone("tools_cache"))

\* A detached thread that stores a result and saves the cache under the guard.
Locks_persistence_thread == Alone("cache_manager")

\* A detached thread that saves the configuration under the guard.
Locks_config_save_thread == Alone("config_manager")

UiRoutines ==
    {Locks_load_tools_with_cache, Locks_start_background_status_checking,
     Locks_update_progress, Locks_get_tool_help, Locks_install_tool,
     Locks_clear_all_cache, Locks_delete_tool, Locks_save_tool_from_form, Locks_drop}

WorkerRoutines ==
    {Locks_status_task, Locks_install_task, Locks_help_task,
     Locks_persistence_thread, Locks_config_save_thread}

RoutinesOf(t) == IF t = "ui" THEN UiRoutines ELSE WorkerRoutines

\* No mutex is held and no thread is in a routine.
InitLocks ==
    /\ ManagerOff
    /\ AutoIdle
    /\ EvalIdle
    /\ StoreIdle
    /\ ProgIdle
    /\ FormIdle
    /\ sync = [pc |-> "on",
               holder |-> [m \in Mutexes |-> "none"],
               todo |-> [t \in Threads |-> <<>>]]

syncRest == <<registry, mgrVars, guiVars, auto, eval, store, prog, form>>

\* Thread t enters a routine.
Begin(t, routine) ==
    /\ sync.pc = "on"
    /\ sync.todo[t] = <<>>
    /\ sync' = [sync EXCEPT !.todo[t] = routine]
    /\ UNCHANGED syncRest

\* Mutex::lock returns for thread t: the mutex was free.  A thread that locks
\* a mutex it holds itself waits for ever.
Acquire(t) ==
    /\ sync.pc = "on"
    /\ sync.todo[t] # <<>>
    /\ Head(sync.todo[t])[1] = "lock"
    /\ sync.holder[Head(sync.todo[t])[2]] = "none"
    /\ sync' = [sync EXCEPT !.holder[Head(sync.todo[t])[2]] = t, !.todo[t] = Tail(@)]
    /\ UNCHANGED syncRest

\* The guard of thread t is dropped.
Release(t) ==
    /\ sync.pc = "on"
    /\ sync.todo[t] # <<>>
    /\ Head(sync.todo[t])[1] = "unlock"
    /\ sync' = [sync EXCEPT !.holder[Head(sync.todo[t])[2]] = "none", !.todo[t] = Tail(@)]
    /\ UNCHANGED syncRest

NextLocks ==
    \/ \E t \in Threads : \E routine \in RoutinesOf(t) : Begin(t, routine)
    \/ \E t \in Threads : Acquire(t)
    \/ \E t \in Threads : Release(t)

SpecLocks == InitLocks /\ [][NextLocks]_vars

\* ------------------------------------------------------- claim on the mutexes
\* Thread t is at a lock step; Awaited(t) is the mutex it asks for.
AtLock(t) == sync.todo[t] # <<>> /\ Head(sync.todo[t])[1] = "lock"
Awaited(t) == Head(sync.todo[t])[2]
Waiting(t) == AtLock(t) /\ sync.holder[Awaited(t)] # "none"

\* A set of threads each waiting for a mutex held by a thread of the set.
CircularWait ==
    \E S \in (SUBSET Threads) \ {{}} :
        \A t \in S : Waiting(t) /\ sync.holder[Awaited(t)] \in S

\* An order of the mutexes that every nested acquisition follows.
AcquisitionOrder ==
    <<"progress_receiver", "install_receiver", "config_manager", "tools_cache",
      "cache_manager", "help_cache", "status_cache", "background_tasks",
      "progress_sender", "install_sender">>
Rank(m) == CHOOSE n \in DOMAIN AcquisitionOrder : AcquisitionOrder[n] = m

\* A thread that takes a mutex holds only mutexes that come before it.
InOrder ==
    \A t \in Threads, m \in Mutexes :
        sync'.holder[m] = t /\ sync.holder[m] # t =>
            \A held \in Mutexes : sync.holder[held] = t => Rank(held) < Rank(m)

\* C36: the mutexes are always acquired in one order that admits no cycle,
\* and no interleaving reaches a state where threads wait on each other's
\* locks: whenever a thread is in a routine, some thread can take a step.
C36_DeadlockFree ==
    /\ [](sync.pc = "on" => ~CircularWait)
    /\ [](sync.pc = "on" /\ (\E t \in Threads : sync.todo[t] # <<>>) =>
              \E t \in Threads : ENABLED Acquire(t) \/ ENABLED Release(t))
    /\ [][sync.pc = "on" => InOrder]_vars

\* The UI thread holds the tools list and waits for the Cache Store, which a
\* persistence thread holds, while a task waits for the tools list.
C36_Witness ==
    /\ sync.pc = "on"
    /\ sync.holder["tools_cache"] = "ui"
    /\ sync.holder["cache_manager"] = "w1"
    /\ Waiting("ui") /\ Awaited("ui") = "cache_manager"
    /\ Waiting("w2") /\ Awaited("w2") = "tools_cache"

\* ---------------------------------------------------- the is_refreshing flag
\* Frames keep being drawn, the runtime keeps running the tasks, and every
\* detached thread gets the lock it waits for and finishes its write.
SpecGuiFrames ==
    /\ SpecGui
    /\ WF_vars(update)
    /\ WF_vars(delete_tool_cache)
    /\ WF_vars(\E i \in DOMAIN tasks : TaskStep(i))
    /\ WF_vars(\E i \in DOMAIN tasks : PersistLock(i))
    /\ WF_vars(\E i \in DOMAIN tasks : PersistSave(i))
    /\ WF_vars(\E d \in DOMAIN savers : ConfigSaveLock(d))
    /\ WF_vars(\E d \in DOMAIN savers : ConfigSave(d))
    /\ WF_vars(\E d \in DOMAIN savers : CacheSaveLock(d))
    /\ WF_vars(\E d \in DOMAIN savers : CacheSave(d))

\* C37 (as claimed): after a refresh has set is_refreshing, the flag
\* eventually returns to false, whatever the tools list holds.
C37_Claim == ui.is_refreshing ~> ~ui.is_refreshing

\* The same with at least one tool listed when the flag is set.
RefreshingSome == ui.is_refreshing /\ status_progress # <<>>

RefreshEndsWithTools == RefreshingSome ~> ~ui.is_refreshing


\* The frame resets is_refreshing in this step.
RefreshEnds == ui.is_refreshing /\ ~ui'.is_refreshing

\* C38 (as claimed): is_refreshing returns to false only after every status
\* check the refresh started has emitted its terminal event.
C38_Claim ==
    [][RefreshEnds => \A i \in DOMAIN tasks : tasks[i].refresh => tasks[i].pc = "done"]_vars


UpdatesAsked == eval.pc = "done" /\ eval.fn = "has_updates_available"

\* C39 (as claimed): for every pair of current and latest version strings,
\* has_updates_available is true exactly when the update_available flag of
\* the VersionInfo computed for the same pair is true.
C39_Claim ==
    UpdatesAsked => (eval.result.has_updates <=> eval.result.version_info.update_available)

\* Where the two agree in the model: the latest version carries no "v" and
\* has as many components as the current one, or is the sentinel.
SameShape ==
    \/ eval.new.text = Str_current
    \/ /\ Head(eval.new.text) # "v"
       /\ Len(parse_version(eval.new.text)) = Len(eval.current.parts)

C39_AgreeOnSameShape ==
    (UpdatesAsked /\ SameShape) =>
        (eval.result.has_updates <=> eval.result.version_info.update_available)

====
